---- MODULE Spec2Model ----
(***************************************************************************)
(* Media-access and reliable-delivery engine of Air-Simulator-Go:          *)
(* the shared Channel (simulation/channel.go), the aircraft and the        *)
(* ground station driven by Step (simulation/aircraft.go, center.go) and   *)
(* the aircraft's autonomous SendMessage loop.                             *)
(*                                                                         *)
(* Time is counted in ticks of one AckTimeout; a timestamp is kept as the  *)
(* age of the instant it records (ticks elapsed since), saturating at      *)
(* AgeCap, so that time.Since(t) > AckTimeout reads age > AckTimeout.      *)
(***************************************************************************)
EXTENDS Integers, Sequences, FiniteSets, TLC

\* ---------------------------------------------------------------- bounds
\* channel requests that may find the channel busy, per agent
MaxFailRq == 1
\* transmission attempts per agent when every agent is driven
MaxTxAttempts == 2
\* transmission attempts of the single aircraft of the no-acknowledgment scenario
MaxTxAttemptsSolo == 18
\* capacity of an agent's inbound queue (20 and 50 in the source)
InboundCap == 2
\* longest time, in units of the transmission time, a transmission keeps the channel
MaxBusyDuration == 1
\* acknowledgments the ground station holds queued before it reads further input
MaxGccQueue == 2
\* polling rounds per agent that lose the access-probability draw
MaxDeferrals == 1

\* characters in a string of a message under test
MaxStringLen == 2
\* data messages a ground station receives in the acknowledgment scenario: one
\* more than its outbound queue holds
MaxAcks == MaxGccQueue + 1
\* the episodes the server is asked to run
MaxEpisodes == 4

\* transmissions committed on one channel in the broadcast scenario: one more
\* than a listener's queue holds
MaxBroadcasts == InboundCap + 1

\* ------------------------------------------------------ program constants
MaxRetries == 16
AckTimeout == 1
MAX_PENDING_ACKS == 3
MessageQueueCap == 100
\* the unit of cumulative busy time
TransmissionTime == 1

AgeCap == AckTimeout + 1

\* sort package: slices of at most this length are sorted by insertion
maxInsertion == 12

\* ------------------------------------------------------------ the entities
Aircraft == {"A1"}
GroundStations == {"G"}
Agents == Aircraft \cup GroundStations
Channels == {"P", "B"}
NoChannel == "nil"

ActionWait == "Wait"
ActionSendPrimary == "SendPrimary"
ActionSendBackup == "SendBackup"
AgentAction == {ActionWait, ActionSendPrimary, ActionSendBackup}

MsgTypeAck == "ACKNOWLEDGEMENT"
MsgTypeData == "DATA"

CriticalPriority == "CRITICAL"
HighPriority == "HIGH"
MediumPriority == "Medium"
LowPriority == "LOW"

\* Priority.Value(): the numeric weight of a priority
PriorityValue(p) ==
    CASE p = CriticalPriority -> 4
      [] p = HighPriority -> 3
      [] p = MediumPriority -> 2
      [] p = LowPriority -> 1
      [] OTHER -> 0

\* the data messages of the flight plan
DataMessage(id, sender, prio) ==
    [MessageID |-> id, Sender |-> sender, Type |-> MsgTypeData,
     Priority |-> prio, Orig |-> "", OriginMessagePriority |-> "", Timestamp |-> 0]

FlightPlanMessages ==
    {DataMessage("m1", "A1", HighPriority)}

MessageIDs == {m.MessageID : m \in FlightPlanMessages}

\* the acknowledgment processMessage builds for a received message
AckMessage(g, m) ==
    [MessageID |-> "ACK-" \o m.MessageID, Sender |-> g, Type |-> MsgTypeAck,
     Priority |-> CriticalPriority, Orig |-> m.MessageID,
     OriginMessagePriority |-> m.Priority, Timestamp |-> 0]

None == [MessageID |-> "none"]

Priorities == {CriticalPriority, HighPriority, MediumPriority, LowPriority}

\* the configured probabilities, in percent
PrimaryPMap ==
    [p \in Priorities |-> CASE p = CriticalPriority -> 90 [] p = HighPriority -> 70
                             [] p = MediumPriority -> 40 [] OTHER -> 20]
BackupPMap ==
    [p \in Priorities |-> CASE p = CriticalPriority -> 95 [] p = HighPriority -> 80
                             [] p = MediumPriority -> 20 [] OTHER -> 10]
SwitchoverProbs ==
    [p \in Priorities |-> CASE p = CriticalPriority -> 100 [] p = HighPriority -> 80
                             [] p = MediumPriority -> 30 [] OTHER -> 5]

VARIABLES
    \* --- configuration of the run
    driven,                    \* agents whose loops run and whom the driver steps
    BackupChannel,             \* "B", or "nil" in single-channel mode
    pValues,                   \* per channel: priority -> access probability, in percent
    switchoverProbabilities,   \* priority -> switchover probability, in percent
    newProbs,                  \* the table the caller of UpdateSwitchoverProbabilities owns
    update,                    \* position of UpdateSwitchoverProbabilities
    roundTrip,                 \* a message on its way through json.Marshal and json.Unmarshal
    \* --- the API server and the values its calls return
    server,                    \* simulationRunning, episodeCounter, the sessions running
    observation,               \* per agent: a GetObservation call and what it has read
    pendingReward,             \* per aircraft: the reward accumulated by the listener
    reward,                    \* per aircraft: the reward taken by the latest Step
    \* --- Channel
    isBusy, messageQueue, totalMessagesTransmitted, totalBusyTime, txGoroutines,
    \* --- agents
    inboundQueue, outboundQueue, ackWaiters, stats, stepState, flightPlan,
    \* --- the aircraft's autonomous mode
    sendState, ackWaiterChans, listenState,
    \* --- history of each message
    acknowledged, retryCount, exhausted

vars == <<driven, BackupChannel, pValues, switchoverProbabilities, newProbs, update, roundTrip,
          server, observation, pendingReward, reward,
          isBusy, messageQueue, totalMessagesTransmitted,
          totalBusyTime, txGoroutines, inboundQueue,
          outboundQueue, ackWaiters, stats, stepState, flightPlan,
          sendState, ackWaiterChans, listenState,
          acknowledged, retryCount, exhausted>>

chanVars == <<isBusy, messageQueue, totalMessagesTransmitted, totalBusyTime,
              txGoroutines>>
confVars == <<driven, BackupChannel, pValues, switchoverProbabilities, newProbs, update,
              roundTrip, server, observation>>
cfgVars == <<confVars, pendingReward, reward>>
histVars == <<acknowledged, retryCount, exhausted>>
autoVars == <<sendState, ackWaiterChans, listenState>>

ZeroStats ==
    [totalTxAttempts |-> 0, totalCollisions |-> 0, successfulTx |-> 0,
     totalRetries |-> 0, totalRqTunnel |-> 0, totalFailRqTunnel |-> 0]

\* UpdateSwitchoverProbabilities is not running; the system's table is a map
\* of its own
IdleUpdate == [pc |-> "idle", todo |-> {}, aliased |-> FALSE]

\* requeued: the ids of idsToDelete the loop of Step has gone through
IdleStep == [pc |-> "idle", action |-> ActionWait, idsToDelete |-> <<>>, requeued |-> {},
             channel |-> NoChannel, msg |-> None]

\* SendMessage has not been started for the message
IdleSend == [pc |-> "idle", retries |-> 0, targetChannel |-> NoChannel, p |-> 0]
\* no channel stored in the waiter table / the listening loop is not in a send
NoChan == [chan |-> -1, buf |-> 0]
NotBlocked == [pc |-> "recv", chan |-> -1]
\* a.pendingReward.Add(20): the reward of one acknowledged message
AckReward == 20
\* the server before the first Reset: no session, episodeCounter 0
NoServer == [simulationRunning |-> FALSE, episodeCounter |-> 0, sessions |-> {},
             lastCall |-> "none", Done |-> FALSE]
\* no GetObservation call in progress
NoObservation == [pc |-> "idle", OutboundQueueLength |-> 0, HasMessage |-> FALSE]

Min(a, b) == IF a < b THEN a ELSE b

\* the less function EnqueueMessage hands to sort.Slice
Less(x, y) == PriorityValue(x.Priority) > PriorityValue(y.Priority)

\* one insertion of the insertion sort: the new last element moves towards the
\* front while it is less than its predecessor (equal weights keep their order)
RECURSIVE InsertByPriority(_, _)
InsertByPriority(q, m) ==
    IF q = <<>> THEN <<m>>
    ELSE IF PriorityValue(q[Len(q)].Priority) >= PriorityValue(m.Priority)
         THEN Append(q, m)
         ELSE Append(InsertByPriority(SubSeq(q, 1, Len(q) - 1), m), q[Len(q)])

\* sort.Slice on a slice of at most maxInsertion elements: insertion sort
RECURSIVE insertionSort(_)
insertionSort(s) ==
    IF Len(s) <= 1 THEN s
    ELSE InsertByPriority(insertionSort(SubSeq(s, 1, Len(s) - 1)), s[Len(s)])

Swap(s, i, j) == [s EXCEPT ![i] = s[j], ![j] = s[i]]

\* order2 of the sort package on two indices: the pair in order, and the swap count
order2(s, x, y, swaps) ==
    IF Less(s[y], s[x]) THEN [a |-> y, b |-> x, swaps |-> swaps + 1]
    ELSE [a |-> x, b |-> y, swaps |-> swaps]

\* choosePivot for 8 <= n < 50: the median of the elements at n/4, 2n/4, 3n/4
\* (indices from 1 here), and whether the samples were found in order
choosePivot(s) ==
    LET l == Len(s)
        i == 1 + (l \div 4) * 1
        j == 1 + (l \div 4) * 2
        k == 1 + (l \div 4) * 3
        o1 == order2(s, i, j, 0)
        o2 == order2(s, o1.b, k, o1.swaps)
        o3 == order2(s, o1.a, o2.a, o2.swaps)
    IN [pivot |-> o3.b, increasing |-> o3.swaps = 0]

\* partialInsertionSort on fewer than 50 elements succeeds only on a slice
\* that is already in order, and changes nothing otherwise
IsInOrder(s) == \A i \in 2..Len(s) : ~Less(s[i], s[i - 1])

\* partition: the pivot is swapped to the front; i scans up over the elements
\* less than it, j scans down over the others, out-of-place pairs are swapped
RECURSIVE ScanUp(_, _, _)
ScanUp(s, i, j) == IF i <= j /\ Less(s[i], s[1]) THEN ScanUp(s, i + 1, j) ELSE i

RECURSIVE ScanDown(_, _, _)
ScanDown(s, i, j) == IF i <= j /\ ~Less(s[j], s[1]) THEN ScanDown(s, i, j - 1) ELSE j

RECURSIVE PartitionLoop(_, _, _)
PartitionLoop(s, i, j) ==
    LET i2 == ScanUp(s, i, j)
        j2 == ScanDown(s, i2, j)
    IN IF i2 > j2 THEN [data |-> Swap(s, j2, 1), mid |-> j2]
       ELSE PartitionLoop(Swap(s, i2, j2), i2 + 1, j2 - 1)

partition(s, pivot) == PartitionLoop(Swap(s, 1, pivot), 2, Len(s))

\* pdqsort on a slice of maxInsertion + 1 elements: done when the samples and
\* the slice are in order, else one partition, whose two sides are short
\* enough for the insertion sort
pdqsort(s) ==
    LET c == choosePivot(s) IN
    IF c.increasing /\ IsInOrder(s) THEN s
    ELSE LET p == partition(s, c.pivot) IN
         insertionSort(SubSeq(p.data, 1, p.mid - 1)) \o <<p.data[p.mid]>>
             \o insertionSort(SubSeq(p.data, p.mid + 1, Len(s)))

\* sort.Slice with the less function of the outbound queue
SortSlice(s) == IF Len(s) <= maxInsertion THEN insertionSort(s) ELSE pdqsort(s)

\* EnqueueMessage: append, then sort.Slice by descending priority weight
EnqueueMessage(q, m) == SortSlice(Append(q, m))

\* (mutant) the read returns the tail of the queue
peekLast(q) == IF Len(q) = 0 THEN None ELSE q[Len(q)]

peekHighestPriorityMessage(q) == IF Len(q) = 0 THEN None ELSE q[1]

\* index of the first queued message with this id, 0 when there is none
RECURSIVE IndexOfID(_, _, _)
IndexOfID(q, id, i) ==
    IF i > Len(q) THEN 0
    ELSE IF q[i].MessageID = id THEN i ELSE IndexOfID(q, id, i + 1)

RemoveAt(q, i) == SubSeq(q, 1, i - 1) \o SubSeq(q, i + 1, Len(q))

\* (mutant) the commit leaves the message in the queue
removeMessageFromQueueKeeps(q, id) == q

removeMessageFromQueue(q, id) ==
    IF IndexOfID(q, id, 1) = 0 THEN q ELSE RemoveAt(q, IndexOfID(q, id, 1))

InQueue(q, id) == IndexOfID(q, id, 1) # 0

\* ------------------------------------------------------------- the Channel
IsBusy(ch) == isBusy[ch]

\* (mutant) the busy flag is not tested
AttemptTransmitWinsAlways(ch) == TRUE

\* AttemptTransmit finds the channel idle under the lock
AttemptTransmitWins(ch) == ~isBusy[ch]

\* (mutant) a refused call still hands its message to the broadcast queue
AttemptTransmitQueuesWhenBusy(ch, msg, senderID) ==
    IF AttemptTransmitWins(ch)
    THEN /\ isBusy' = [isBusy EXCEPT ![ch] = TRUE]
         /\ txGoroutines' = txGoroutines \cup
                {[ch |-> ch, msg |-> msg, sender |-> senderID, pc |-> "sleep"]}
         /\ UNCHANGED <<messageQueue, totalMessagesTransmitted, totalBusyTime>>
    ELSE /\ messageQueue' = [messageQueue EXCEPT ![ch] = Append(@, msg)]
         /\ UNCHANGED <<isBusy, totalMessagesTransmitted, totalBusyTime, txGoroutines>>

\* AttemptTransmit(msg, senderID): refuse when busy, else claim the channel
\* and start the goroutine that completes the transmission
AttemptTransmit(ch, msg, senderID) ==
    IF AttemptTransmitWins(ch)
    THEN /\ isBusy' = [isBusy EXCEPT ![ch] = TRUE]
         /\ txGoroutines' = txGoroutines \cup
                {[ch |-> ch, msg |-> msg, sender |-> senderID, pc |-> "sleep"]}
         /\ UNCHANGED <<messageQueue, totalMessagesTransmitted, totalBusyTime>>
    ELSE UNCHANGED chanVars

\* (mutant) the goroutine hands the message over and does not count it
TxBroadcastUncounted(t) ==
    /\ t \in txGoroutines /\ t.pc = "sleep"
    /\ Len(messageQueue[t.ch]) < MessageQueueCap
    /\ messageQueue' = [messageQueue EXCEPT ![t.ch] = Append(@, t.msg)]
    /\ txGoroutines' = (txGoroutines \ {t}) \cup {[t EXCEPT !.pc = "sent"]}
    /\ UNCHANGED <<isBusy, totalBusyTime, totalMessagesTransmitted>>
    /\ UNCHANGED <<cfgVars, autoVars, inboundQueue, outboundQueue, ackWaiters, stats,
                   stepState, flightPlan, histVars>>

\* the goroutine, after the sleep: c.messageQueue <- msg, then
\* c.totalMessagesTransmitted.Add(1)
TxBroadcast(t) ==
    /\ t \in txGoroutines /\ t.pc = "sleep"
    /\ Len(messageQueue[t.ch]) < MessageQueueCap
    /\ messageQueue' = [messageQueue EXCEPT ![t.ch] = Append(@, t.msg)]
    /\ totalMessagesTransmitted' = [totalMessagesTransmitted EXCEPT ![t.ch] = @ + 1]
    /\ txGoroutines' = (txGoroutines \ {t}) \cup {[t EXCEPT !.pc = "sent"]}
    /\ UNCHANGED <<isBusy, totalBusyTime>>
    /\ UNCHANGED <<cfgVars, autoVars, inboundQueue, outboundQueue, ackWaiters, stats,
                   stepState, flightPlan, histVars>>

\* (mutant) the completion accounts the busy time but leaves the flag set
TxReleaseKeepsBusy(t) ==
    /\ t \in txGoroutines /\ t.pc = "sent"
    /\ \E busyDuration \in TransmissionTime..MaxBusyDuration :
          totalBusyTime' = [totalBusyTime EXCEPT ![t.ch] = @ + busyDuration]
    /\ txGoroutines' = txGoroutines \ {t}
    /\ UNCHANGED <<isBusy, messageQueue, totalMessagesTransmitted>>
    /\ UNCHANGED <<cfgVars, autoVars, inboundQueue, outboundQueue, ackWaiters, stats,
                   stepState, flightPlan, histVars>>

\* the goroutine: lock, isBusy = false, totalBusyTime += time.Since(lastBusyTimestamp);
\* the time since the commit is the transmission time and what scheduling adds
TxRelease(t) ==
    /\ t \in txGoroutines /\ t.pc = "sent"
    /\ isBusy' = [isBusy EXCEPT ![t.ch] = FALSE]
    /\ \E busyDuration \in TransmissionTime..MaxBusyDuration :
          totalBusyTime' = [totalBusyTime EXCEPT ![t.ch] = @ + busyDuration]
    /\ txGoroutines' = txGoroutines \ {t}
    /\ UNCHANGED <<messageQueue, totalMessagesTransmitted>>
    /\ UNCHANGED <<cfgVars, autoVars, inboundQueue, outboundQueue, ackWaiters, stats,
                   stepState, flightPlan, histVars>>

\* the channels of the communication system
ActiveChannels == IF BackupChannel = NoChannel THEN {"P"} ELSE {"P", BackupChannel}

\* (mutant) a full listener queue gives up its oldest message for the new one
DeliverOverwrites(q, m) == IF Len(q) < InboundCap THEN Append(q, m) ELSE Append(Tail(q), m)

\* listener <- msg in a select with default: dropped when the queue is full
Deliver(q, m) == IF Len(q) < InboundCap THEN Append(q, m) ELSE q

\* (mutant) the listener is registered on the primary channel only
RegisterListenerPrimaryOnly(ch) == IF ch = "P" THEN driven ELSE {}

\* CommunicationSystem.RegisterListener: c.listeners of channel ch holds the
\* inbound queue of every listening agent, on the primary and on the backup
RegisterListener(ch) == IF ch \in ActiveChannels THEN driven ELSE {}

\* (mutant) the dispatch loop takes the newest message of the broadcast queue
DispatchNewestFirst(ch) ==
    /\ ch \in ActiveChannels
    /\ messageQueue[ch] # <<>>
    /\ messageQueue' = [messageQueue EXCEPT ![ch] = SubSeq(@, 1, Len(@) - 1)]
    /\ inboundQueue' = [a \in Agents |->
                          IF a \in RegisterListener(ch)
                          THEN Deliver(inboundQueue[a], messageQueue[ch][Len(messageQueue[ch])])
                          ELSE inboundQueue[a]]
    /\ UNCHANGED <<isBusy, totalMessagesTransmitted, totalBusyTime, txGoroutines>>
    /\ UNCHANGED <<cfgVars, autoVars, outboundQueue, ackWaiters, stats, stepState,
                   flightPlan, histVars>>

\* StartDispatching: one message of the broadcast queue to every listener
Dispatch(ch) ==
    /\ ch \in ActiveChannels
    /\ messageQueue[ch] # <<>>
    /\ messageQueue' = [messageQueue EXCEPT ![ch] = Tail(@)]
    /\ inboundQueue' = [a \in Agents |->
                          IF a \in RegisterListener(ch)
                          THEN Deliver(inboundQueue[a], Head(messageQueue[ch]))
                          ELSE inboundQueue[a]]
    /\ UNCHANGED <<isBusy, totalMessagesTransmitted, totalBusyTime, txGoroutines>>
    /\ UNCHANGED <<cfgVars, autoVars, outboundQueue, ackWaiters, stats, stepState,
                   flightPlan, histVars>>

\* ------------------------------------------------------- messages as JSON
\* text is a sequence of characters; the characters strings are made of: a
\* letter, the quote, the backslash, one that json.Marshal writes as <,
\* and the two that delimit JSON objects and members
Chars == {"a", "\"", "\\", "<", "}", ","}
Strings == UNION {[1..n -> Chars] : n \in 0..MaxStringLen}

\* the json tags of ACARSBaseMessage, CriticalHighPriorityMessage and
\* AircraftFaultData
TagAircraftICAOAddress == <<"a", "i", "r", "c", "r", "a", "f", "t", "I", "C", "A", "O", "A", "d", "d", "r", "e", "s", "s">>
TagFlightID == <<"f", "l", "i", "g", "h", "t", "I", "D">>
TagMessageID == <<"m", "e", "s", "s", "a", "g", "e", "I", "D">>
TagTimestamp == <<"t", "i", "m", "e", "s", "t", "a", "m", "p">>
TagType == <<"t", "y", "p", "e">>
TagData == <<"d", "a", "t", "a">>
TagFaultCode == <<"f", "a", "u", "l", "t", "C", "o", "d", "e">>
TagDescription == <<"d", "e", "s", "c", "r", "i", "p", "t", "i", "o", "n">>
TagSeverity == <<"s", "e", "v", "e", "r", "i", "t", "y">>
TagFaultTime == <<"f", "a", "u", "l", "t", "T", "i", "m", "e">>
TagSystem == <<"s", "y", "s", "t", "e", "m">>

MsgTypeAircraftFault == <<"A", "I", "R", "C", "R", "A", "F", "T", "_", "F", "A", "U", "L", "T">>
MsgTypeATCMessage == <<"A", "T", "C", "_", "M", "E", "S", "S", "A", "G", "E">>

RECURSIVE Concat(_)
Concat(ss) == IF ss = <<>> THEN <<>> ELSE Head(ss) \o Concat(Tail(ss))

\* (mutant) the characters of a string are written as they are
EscapeNothing(c) == <<c>>

\* encoding/json, a character of a string value: quote and backslash get a
\* backslash, '<' is written as < (HTML escaping is on in json.Marshal)
EscapeChar(c) ==
    CASE c = "\"" -> <<"\\", "\"">>
      [] c = "\\" -> <<"\\", "\\">>
      [] c = "<" -> <<"\\", "u", "0", "0", "3", "c">>
      [] OTHER -> <<c>>

MarshalString(str) ==
    <<"\"">> \o Concat([i \in 1..Len(str) |-> EscapeChar(str[i])]) \o <<"\"">>

\* a member of an object: the tag, a colon, the value
Member(tag, value) == MarshalString(tag) \o <<":">> \o value

\* time.Time is written as its wall-clock reading in RFC 3339
MarshalTime(t) == MarshalString(t.wall)

\* json.Marshal of an AircraftFaultData
MarshalFaultData(d) ==
    <<"{">> \o Member(TagFaultCode, MarshalString(d.FaultCode))
    \o <<",">> \o Member(TagDescription, MarshalString(d.Description))
    \o <<",">> \o Member(TagSeverity, MarshalString(d.Severity))
    \o <<",">> \o Member(TagFaultTime, MarshalTime(d.Timestamp))
    \o <<",">> \o Member(TagSystem, MarshalString(d.System)) \o <<"}">>

\* NewCriticalHighPriorityMessage: the header and the marshalled data
NewCriticalHighPriorityMessage(base, data) ==
    [AircraftICAOAddress |-> base.AircraftICAOAddress, FlightID |-> base.FlightID,
     MessageID |-> base.MessageID, Timestamp |-> base.Timestamp, Type |-> base.Type,
     Data |-> MarshalFaultData(data)]

\* json.Marshal of a CriticalHighPriorityMessage: the fields of the embedded
\* header, then the raw data as it is
MarshalMessage(m) ==
    <<"{">> \o Member(TagAircraftICAOAddress, MarshalString(m.AircraftICAOAddress))
    \o <<",">> \o Member(TagFlightID, MarshalString(m.FlightID))
    \o <<",">> \o Member(TagMessageID, MarshalString(m.MessageID))
    \o <<",">> \o Member(TagTimestamp, MarshalTime(m.Timestamp))
    \o <<",">> \o Member(TagType, MarshalString(m.Type))
    \o <<",">> \o Member(TagData, m.Data) \o <<"}">>

\* the character a \uXXXX escape stands for
Unicode(hex) == IF hex = <<"0", "0", "3", "c">> THEN "<" ELSE "?"

\* the decoder inside a string, after the opening quote
RECURSIVE ReadString(_, _, _)
ReadString(t, i, acc) ==
    IF i > Len(t) THEN [ok |-> FALSE, val |-> acc, next |-> i]
    ELSE IF t[i] = "\"" THEN [ok |-> TRUE, val |-> acc, next |-> i + 1]
    ELSE IF t[i] = "\\"
    THEN IF i + 1 > Len(t) THEN [ok |-> FALSE, val |-> acc, next |-> i]
         ELSE IF t[i + 1] = "u"
         THEN IF i + 5 > Len(t) THEN [ok |-> FALSE, val |-> acc, next |-> i]
              ELSE ReadString(t, i + 6, Append(acc, Unicode(SubSeq(t, i + 2, i + 5))))
         ELSE IF t[i + 1] \in {"\"", "\\"}
         THEN ReadString(t, i + 2, Append(acc, t[i + 1]))
         ELSE [ok |-> FALSE, val |-> acc, next |-> i]
    ELSE ReadString(t, i + 1, Append(acc, t[i]))

ParseString(t, i) ==
    IF i <= Len(t) /\ t[i] = "\""
    THEN ReadString(t, i + 1, <<>>)
    ELSE [ok |-> FALSE, val |-> <<>>, next |-> i]

\* the decoder at a value, a string or an object; of an object it yields the
\* members as pairs of key and raw value
RECURSIVE ParseValue(_, _)
RECURSIVE ParseMembers(_, _, _)
ParseValue(t, i) ==
    IF i > Len(t) THEN [ok |-> FALSE, members |-> <<>>, next |-> i]
    ELSE IF t[i] = "\""
    THEN [ok |-> ParseString(t, i).ok, members |-> <<>>, next |-> ParseString(t, i).next]
    ELSE IF t[i] = "{" THEN ParseMembers(t, i + 1, <<>>)
    ELSE [ok |-> FALSE, members |-> <<>>, next |-> i]

ParseMembers(t, i, acc) ==
    IF i > Len(t) THEN [ok |-> FALSE, members |-> acc, next |-> i]
    ELSE IF t[i] = "}" /\ acc = <<>> THEN [ok |-> TRUE, members |-> acc, next |-> i + 1]
    ELSE LET k == ParseString(t, i) IN
      IF ~k.ok \/ k.next > Len(t) \/ t[k.next] # ":"
      THEN [ok |-> FALSE, members |-> acc, next |-> i]
      ELSE LET v == ParseValue(t, k.next + 1) IN
        IF ~v.ok \/ v.next > Len(t) THEN [ok |-> FALSE, members |-> acc, next |-> i]
        ELSE LET more == Append(acc, [key |-> k.val,
                                      raw |-> SubSeq(t, k.next + 1, v.next - 1)])
             IN IF t[v.next] = "," THEN ParseMembers(t, v.next + 1, more)
                ELSE IF t[v.next] = "}"
                THEN [ok |-> TRUE, members |-> more, next |-> v.next + 1]
                ELSE [ok |-> FALSE, members |-> acc, next |-> i]

\* the text is one object and nothing else
ParseObject(t) ==
    LET r == ParseValue(t, 1) IN
      [ok |-> r.ok /\ Len(t) >= 1 /\ t[1] = "{" /\ r.next = Len(t) + 1,
       members |-> r.members]

\* the raw value of the last member with this key, the empty text without one
RawField(members, tag) ==
    LET found == {j \in 1..Len(members) : members[j].key = tag} IN
      IF found = {} THEN <<>>
      ELSE members[CHOOSE j \in found : \A k \in found : k <= j].raw

\* a string field: the zero value without a member, the decoded string else
StringField(members, tag) ==
    LET raw == RawField(members, tag) IN
      IF raw = <<>> THEN [ok |-> TRUE, val |-> <<>>]
      ELSE [ok |-> ParseString(raw, 1).ok /\ ParseString(raw, 1).next = Len(raw) + 1,
            val |-> ParseString(raw, 1).val]

\* a time read from its text has no monotonic clock reading
TimeField(members, tag) == [wall |-> StringField(members, tag).val, mono |-> 0]

\* json.Unmarshal into a CriticalHighPriorityMessage
UnmarshalMessage(t) ==
    LET o == ParseObject(t) IN
      [ok |-> /\ o.ok
              /\ \A tag \in {TagAircraftICAOAddress, TagFlightID, TagMessageID,
                             TagTimestamp, TagType} : StringField(o.members, tag).ok,
       msg |-> [AircraftICAOAddress |-> StringField(o.members, TagAircraftICAOAddress).val,
                FlightID |-> StringField(o.members, TagFlightID).val,
                MessageID |-> StringField(o.members, TagMessageID).val,
                Timestamp |-> TimeField(o.members, TagTimestamp),
                Type |-> StringField(o.members, TagType).val,
                Data |-> RawField(o.members, TagData)]]

\* json.Unmarshal of the raw data into an AircraftFaultData
UnmarshalFaultData(t) ==
    LET o == ParseObject(t) IN
      [ok |-> /\ o.ok
              /\ \A tag \in {TagFaultCode, TagDescription, TagSeverity, TagFaultTime,
                             TagSystem} : StringField(o.members, tag).ok,
       data |-> [FaultCode |-> StringField(o.members, TagFaultCode).val,
                 Description |-> StringField(o.members, TagDescription).val,
                 Severity |-> StringField(o.members, TagSeverity).val,
                 Timestamp |-> TimeField(o.members, TagFaultTime),
                 System |-> StringField(o.members, TagSystem).val]]

\* the header and the fault data of the messages under test
Now == [wall |-> <<"a">>, mono |-> 1]
BaseMessages ==
    {[AircraftICAOAddress |-> addr, FlightID |-> <<"a">>, MessageID |-> <<"a", "a">>,
      Timestamp |-> Now, Type |-> type] :
        addr \in Strings, type \in {MsgTypeAircraftFault, MsgTypeATCMessage}}
FaultData ==
    {[FaultCode |-> code, Description |-> <<"a">>, Severity |-> sev,
      Timestamp |-> Now, System |-> <<>>] :
        code \in Strings, sev \in {str \in Strings : Len(str) <= 1}}

NoFaultData ==
    [FaultCode |-> <<>>, Description |-> <<>>, Severity |-> <<>>,
     Timestamp |-> [wall |-> <<>>, mono |-> 0], System |-> <<>>]
NoMessage ==
    [AircraftICAOAddress |-> <<>>, FlightID |-> <<>>, MessageID |-> <<>>,
     Timestamp |-> [wall |-> <<>>, mono |-> 0], Type |-> <<>>, Data |-> <<>>]
NoRoundTrip ==
    [pc |-> "none", base |-> NoMessage, data |-> NoFaultData, msg |-> NoMessage,
     json |-> <<>>, ok |-> TRUE, received |-> NoMessage, receivedData |-> NoFaultData]

RoundTripFrame ==
    UNCHANGED <<driven, BackupChannel, pValues, switchoverProbabilities, newProbs, update,
                server, observation, pendingReward, reward, chanVars, autoVars, inboundQueue, outboundQueue, ackWaiters, stats,
                stepState, flightPlan, histVars>>

\* criticalMsg, err := NewCriticalHighPriorityMessage(baseMsg, faultData)
RoundTripCreate ==
    /\ roundTrip.pc = "input"
    /\ roundTrip' = [roundTrip EXCEPT !.pc = "created",
                        !.msg = NewCriticalHighPriorityMessage(roundTrip.base, roundTrip.data)]
    /\ RoundTripFrame

\* jsonBytes, err := json.Marshal(criticalMsg)
RoundTripMarshal ==
    /\ roundTrip.pc = "created"
    /\ roundTrip' = [roundTrip EXCEPT !.pc = "marshalled",
                                      !.json = MarshalMessage(roundTrip.msg)]
    /\ RoundTripFrame

\* err = json.Unmarshal(jsonBytes, &receivedCriticalMsg)
RoundTripUnmarshal ==
    /\ roundTrip.pc = "marshalled"
    /\ LET r == UnmarshalMessage(roundTrip.json) IN
         roundTrip' = [roundTrip EXCEPT !.pc = "received", !.ok = r.ok, !.received = r.msg]
    /\ RoundTripFrame

\* err = json.Unmarshal(receivedCriticalMsg.Data, &receivedFaultData)
RoundTripDecode ==
    /\ roundTrip.pc = "received"
    /\ LET r == UnmarshalFaultData(roundTrip.received.Data) IN
         roundTrip' = [roundTrip EXCEPT !.pc = "decoded", !.ok = roundTrip.ok /\ r.ok,
                                        !.receivedData = r.data]
    /\ RoundTripFrame

\* ------------------------------------------------- the aircraft under Step
\* transmission attempts the model lets one agent make
TxCap == IF driven = Agents THEN MaxTxAttempts ELSE MaxTxAttemptsSolo

SendActions == {ActionSendPrimary, ActionSendBackup}

\* (mutant) SendBackup without a backup channel falls back to the primary
ChannelOfActionFallsBack(action) ==
    IF action = ActionSendPrimary \/ BackupChannel = NoChannel THEN "P" ELSE BackupChannel

\* the channel a send action names; "nil" for SendBackup without a backup
ChannelOfAction(action) ==
    IF action = ActionSendPrimary THEN "P" ELSE BackupChannel

\* ids of the pending entries, and those the sweep finds timed out
PendingIDs(a) == {id \in DOMAIN ackWaiters[a] : ackWaiters[a][id] # None}

\* (mutant) the sweep takes every pending entry for timed out
AllPendingIDs(a) == PendingIDs(a)

TimedOutIDs(a) == {id \in PendingIDs(a) : ackWaiters[a][id].sendTime > AckTimeout}

\* the sequences that list each element of a set once (the order of Range)
Orderings(S) ==
    {q \in [1..Cardinality(S) -> S] : \A i, j \in 1..Cardinality(S) : q[i] = q[j] => i = j}

\* Step, first part: ackWaiters.Range collects the timed-out entries
StepBegin(a, action) ==
    /\ a \in Aircraft /\ a \in driven
    /\ stepState[a].pc = "idle"
    /\ action \in SendActions => stats[a].totalTxAttempts < TxCap
    /\ \E order \in Orderings(TimedOutIDs(a)) :
          stepState' = [stepState EXCEPT ![a] =
              [pc |-> "requeue", action |-> action,
               idsToDelete |-> [i \in 1..Len(order) |->
                                  [id |-> order[i],
                                   message |-> ackWaiters[a][order[i]].message]],
               requeued |-> {}, channel |-> NoChannel, msg |-> None]]
    /\ reward' = [reward EXCEPT ![a] = pendingReward[a]]
    /\ pendingReward' = [pendingReward EXCEPT ![a] = 0]
    /\ UNCHANGED <<confVars, autoVars, chanVars, inboundQueue, outboundQueue, ackWaiters,
                   stats, flightPlan, histVars>>

\* (mutant) the sweep requeues a timed-out message and keeps its pending entry
StepRequeueKeepsWaiter(a) ==
    /\ a \in Aircraft
    /\ stepState[a].pc = "requeue"
    /\ stepState[a].idsToDelete # <<>>
    /\ LET e == Head(stepState[a].idsToDelete) IN
         /\ stats' = [stats EXCEPT ![a].totalRetries = @ + 1]
         /\ outboundQueue' = [outboundQueue EXCEPT ![a] = EnqueueMessage(@, e.message)]
         /\ retryCount' = [retryCount EXCEPT ![e.id] = @ + 1]
    /\ stepState' = [stepState EXCEPT ![a].idsToDelete = Tail(@),
                                      ![a].requeued = @ \cup {Head(stepState[a].idsToDelete).id}]
    /\ UNCHANGED <<cfgVars, autoVars, chanVars, inboundQueue, flightPlan, acknowledged,
                   exhausted, ackWaiters>>

\* Step, the loop over idsToDelete: Delete, count a retry, enqueue again
StepRequeue(a) ==
    /\ a \in Aircraft
    /\ stepState[a].pc = "requeue"
    /\ stepState[a].idsToDelete # <<>>
    /\ LET e == Head(stepState[a].idsToDelete) IN
         /\ ackWaiters' = [ackWaiters EXCEPT ![a][e.id] = None]
         /\ stats' = [stats EXCEPT ![a].totalRetries = @ + 1]
         /\ outboundQueue' = [outboundQueue EXCEPT ![a] = EnqueueMessage(@, e.message)]
         /\ retryCount' = [retryCount EXCEPT ![e.id] = @ + 1]
    /\ stepState' = [stepState EXCEPT ![a].idsToDelete = Tail(@),
                                      ![a].requeued = @ \cup {Head(stepState[a].idsToDelete).id}]
    /\ UNCHANGED <<cfgVars, autoVars, chanVars, inboundQueue, flightPlan, acknowledged, exhausted>>

\* (mutant) Step sends without looking at the number of pending entries
StepActWindowless(a) ==
    /\ a \in Aircraft
    /\ stepState[a].pc = "requeue"
    /\ stepState[a].idsToDelete = <<>>
    /\ LET msgToSend == peekHighestPriorityMessage(outboundQueue[a])
           action == stepState[a].action
           ch == ChannelOfAction(action)
       IN IF \/ msgToSend = None
             \/ action = ActionWait
             \/ ch = NoChannel
          THEN /\ stepState' = [stepState EXCEPT ![a] = IdleStep]
               /\ UNCHANGED stats
          ELSE IF IsBusy(ch)
          THEN /\ stats[a].totalFailRqTunnel < MaxFailRq
               /\ stats' = [stats EXCEPT ![a].totalRqTunnel = @ + 1,
                                         ![a].totalFailRqTunnel = @ + 1]
               /\ stepState' = [stepState EXCEPT ![a] = IdleStep]
          ELSE /\ stats' = [stats EXCEPT ![a].totalRqTunnel = @ + 1,
                                         ![a].totalTxAttempts = @ + 1]
               /\ stepState' = [stepState EXCEPT ![a] =
                      [IdleStep EXCEPT !.pc = "attempt", !.action = action,
                                       !.requeued = stepState[a].requeued,
                                       !.channel = ch, !.msg = msgToSend]]
    /\ UNCHANGED <<cfgVars, autoVars, chanVars, inboundQueue, outboundQueue, ackWaiters,
                   flightPlan, histVars>>

\* Step, the decision: count the pending acks, peek, apply the action up to
\* the IsBusy check of attemptSendOnChannel
StepAct(a) ==
    /\ a \in Aircraft
    /\ stepState[a].pc = "requeue"
    /\ stepState[a].idsToDelete = <<>>
    /\ LET msgToSend == peekHighestPriorityMessage(outboundQueue[a])
           action == stepState[a].action
           ch == ChannelOfAction(action)
       IN IF \/ msgToSend = None
             \/ Cardinality(PendingIDs(a)) >= MAX_PENDING_ACKS
             \/ action = ActionWait
             \/ ch = NoChannel
          THEN /\ stepState' = [stepState EXCEPT ![a] = IdleStep]
               /\ UNCHANGED stats
          ELSE IF IsBusy(ch)
          THEN /\ stats[a].totalFailRqTunnel < MaxFailRq
               /\ stats' = [stats EXCEPT ![a].totalRqTunnel = @ + 1,
                                         ![a].totalFailRqTunnel = @ + 1]
               /\ stepState' = [stepState EXCEPT ![a] = IdleStep]
          ELSE /\ stats' = [stats EXCEPT ![a].totalRqTunnel = @ + 1,
                                         ![a].totalTxAttempts = @ + 1]
               /\ stepState' = [stepState EXCEPT ![a] =
                      [IdleStep EXCEPT !.pc = "attempt", !.action = action,
                                       !.requeued = stepState[a].requeued,
                                       !.channel = ch, !.msg = msgToSend]]
    /\ UNCHANGED <<cfgVars, autoVars, chanVars, inboundQueue, outboundQueue, ackWaiters,
                   flightPlan, histVars>>

\* (mutant) the caller treats a refused call as a commit
StepAttemptCommitsAlways(a) ==
    /\ a \in Aircraft
    /\ stepState[a].pc = "attempt"
    /\ LET ch == stepState[a].channel
           msg == stepState[a].msg
       IN /\ AttemptTransmit(ch, msg, a)
          /\ outboundQueue' = [outboundQueue EXCEPT ![a] =
                                  removeMessageFromQueue(@, msg.MessageID)]
          /\ ackWaiters' = [ackWaiters EXCEPT ![a][msg.MessageID] =
                               [message |-> msg, sendTime |-> 0]]
          /\ UNCHANGED stats
    /\ stepState' = [stepState EXCEPT ![a] = IdleStep]
    /\ UNCHANGED <<cfgVars, autoVars, inboundQueue, flightPlan, histVars>>

\* attemptSendOnChannel from AttemptTransmit on: on a commit the message leaves
\* the queue and enters ackWaiters, otherwise a collision is counted
StepAttempt(a) ==
    /\ a \in Aircraft
    /\ stepState[a].pc = "attempt"
    /\ LET ch == stepState[a].channel
           msg == stepState[a].msg
       IN /\ AttemptTransmit(ch, msg, a)
          /\ IF AttemptTransmitWins(ch)
             THEN /\ outboundQueue' = [outboundQueue EXCEPT ![a] =
                                         removeMessageFromQueue(@, msg.MessageID)]
                  /\ ackWaiters' = [ackWaiters EXCEPT ![a][msg.MessageID] =
                                      [message |-> msg, sendTime |-> 0]]
                  /\ UNCHANGED stats
             ELSE /\ stats' = [stats EXCEPT ![a].totalCollisions = @ + 1]
                  /\ UNCHANGED <<outboundQueue, ackWaiters>>
    /\ stepState' = [stepState EXCEPT ![a] = IdleStep]
    /\ UNCHANGED <<cfgVars, autoVars, inboundQueue, flightPlan, histVars>>

\* a payload that json.Unmarshal rejects
MalformedData == "{"

\* the payload of an acknowledgment read as AcknowledgementData: the parse
\* fails on a malformed payload, else it yields the original message id
ParseAck(msg) ==
    IF msg.Orig = MalformedData
    THEN [ok |-> FALSE, OriginalMessageID |-> ""]
    ELSE [ok |-> TRUE, OriginalMessageID |-> msg.Orig]

\* ackWaiters holds an entry under this id
HasWaiter(a, id) == id \in DOMAIN ackWaiters[a] /\ ackWaiters[a][id] # None

\* (mutant) every acknowledgment counts as a success
AircraftListenCountsAny(a) ==
    /\ a \in Aircraft /\ a \in driven
    /\ inboundQueue[a] # <<>>
    /\ inboundQueue' = [inboundQueue EXCEPT ![a] = Tail(@)]
    /\ LET msg == Head(inboundQueue[a]) IN
         IF msg.Type = MsgTypeAck
         THEN /\ ackWaiters' = [ackWaiters EXCEPT ![a] =
                    [id \in DOMAIN @ |-> IF id = msg.Orig THEN None ELSE @[id]]]
              /\ pendingReward' = [pendingReward EXCEPT ![a] = @ + AckReward]
              /\ stats' = [stats EXCEPT ![a].successfulTx = @ + 1]
              /\ acknowledged' = acknowledged \cup ({msg.Orig} \cap MessageIDs)
         ELSE UNCHANGED <<ackWaiters, stats, acknowledged, pendingReward>>
    /\ UNCHANGED <<confVars, reward, autoVars, chanVars, outboundQueue, stepState, flightPlan,
                   retryCount, exhausted>>

\* StartListening, one inbound message: an acknowledgment whose original id
\* has a pending entry takes the entry (LoadAndDelete) and counts a success
AircraftListen(a) ==
    /\ a \in Aircraft /\ a \in driven
    /\ inboundQueue[a] # <<>>
    /\ inboundQueue' = [inboundQueue EXCEPT ![a] = Tail(@)]
    /\ LET msg == Head(inboundQueue[a]) IN
         IF /\ msg.Type = MsgTypeAck
            /\ ParseAck(msg).ok
            /\ HasWaiter(a, ParseAck(msg).OriginalMessageID)
         THEN /\ ackWaiters' = [ackWaiters EXCEPT ![a][ParseAck(msg).OriginalMessageID] = None]
              /\ pendingReward' = [pendingReward EXCEPT ![a] = @ + AckReward]
              /\ stats' = [stats EXCEPT ![a].successfulTx = @ + 1]
              /\ acknowledged' = acknowledged \cup {ParseAck(msg).OriginalMessageID}
         ELSE UNCHANGED <<ackWaiters, stats, acknowledged, pendingReward>>
    /\ UNCHANGED <<confVars, reward, autoVars, chanVars, outboundQueue, stepState, flightPlan,
                   retryCount, exhausted>>

\* the flight plan hands a new message to its aircraft
Enqueue(m) ==
    /\ m \in flightPlan
    /\ m.Sender \in driven
    /\ flightPlan' = flightPlan \ {m}
    /\ outboundQueue' = [outboundQueue EXCEPT ![m.Sender] = EnqueueMessage(@, m)]
    /\ UNCHANGED <<cfgVars, autoVars, chanVars, inboundQueue, ackWaiters, stats, stepState,
                   histVars>>

\* ------------------------------------------ the ground station under Step
\* the weight GroundControlCenter.EnqueueMessage sorts by: the payload is raw
\* JSON, the assertion to AcknowledgementData fails and the weight stays 0
GccSortWeight(m) == 0

RECURSIVE GccInsert(_, _)
GccInsert(q, m) ==
    IF q = <<>> THEN <<m>>
    ELSE IF GccSortWeight(q[Len(q)]) >= GccSortWeight(m)
         THEN Append(q, m)
         ELSE Append(GccInsert(SubSeq(q, 1, Len(q) - 1), m), q[Len(q)])

GccEnqueueMessage(q, m) == GccInsert(q, m)

\* StartListening and processMessage for one inbound message: a message of
\* another sender is answered with an acknowledgment put in the outbound queue
GccProcessMessage(g) ==
    /\ g \in GroundStations /\ g \in driven
    /\ inboundQueue[g] # <<>>
    /\ Len(outboundQueue[g]) < MaxGccQueue
    /\ inboundQueue' = [inboundQueue EXCEPT ![g] = Tail(@)]
    /\ LET msg == Head(inboundQueue[g]) IN
         IF msg.Sender = g
         THEN UNCHANGED outboundQueue
         ELSE outboundQueue' = [outboundQueue EXCEPT ![g] =
                                  GccEnqueueMessage(@, AckMessage(g, msg))]
    /\ UNCHANGED <<cfgVars, autoVars, chanVars, ackWaiters, stats, stepState, flightPlan,
                   histVars>>

\* the acks Step keeps: those created no longer than AckTimeout ago
RECURSIVE PurgeExpired(_)
PurgeExpired(q) ==
    IF q = <<>> THEN <<>>
    ELSE IF Head(q).Timestamp > AckTimeout
         THEN PurgeExpired(Tail(q))
         ELSE <<Head(q)>> \o PurgeExpired(Tail(q))

\* (mutant) Step chooses its message without purging the expired acks
GccStepKeepsExpired(g, action) ==
    /\ g \in GroundStations /\ g \in driven
    /\ stepState[g].pc = "idle"
    /\ action \in SendActions => stats[g].totalTxAttempts < TxCap
    /\ LET kept == outboundQueue[g]
           msgToSend == peekHighestPriorityMessage(kept)
           ch == ChannelOfAction(action)
       IN /\ outboundQueue' = [outboundQueue EXCEPT ![g] = kept]
          /\ IF \/ msgToSend = None
                \/ action = ActionWait
                \/ ch = NoChannel
             THEN UNCHANGED <<stats, stepState>>
             ELSE IF IsBusy(ch)
             THEN /\ stats[g].totalFailRqTunnel < MaxFailRq
                  /\ stats' = [stats EXCEPT ![g].totalRqTunnel = @ + 1,
                                            ![g].totalFailRqTunnel = @ + 1]
                  /\ UNCHANGED stepState
             ELSE /\ stats' = [stats EXCEPT ![g].totalRqTunnel = @ + 1,
                                            ![g].totalTxAttempts = @ + 1]
                  /\ stepState' = [stepState EXCEPT ![g] =
                         [IdleStep EXCEPT !.pc = "attempt", !.action = action,
                                          !.channel = ch, !.msg = msgToSend]]
    /\ UNCHANGED <<cfgVars, autoVars, chanVars, inboundQueue, ackWaiters, flightPlan, histVars>>

\* GroundControlCenter.Step up to the IsBusy check of attemptSendOnChannel
GccStep(g, action) ==
    /\ g \in GroundStations /\ g \in driven
    /\ stepState[g].pc = "idle"
    /\ action \in SendActions => stats[g].totalTxAttempts < TxCap
    /\ LET kept == PurgeExpired(outboundQueue[g])
           msgToSend == peekHighestPriorityMessage(kept)
           ch == ChannelOfAction(action)
       IN /\ outboundQueue' = [outboundQueue EXCEPT ![g] = kept]
          /\ IF \/ msgToSend = None
                \/ action = ActionWait
                \/ ch = NoChannel
             THEN UNCHANGED <<stats, stepState>>
             ELSE IF IsBusy(ch)
             THEN /\ stats[g].totalFailRqTunnel < MaxFailRq
                  /\ stats' = [stats EXCEPT ![g].totalRqTunnel = @ + 1,
                                            ![g].totalFailRqTunnel = @ + 1]
                  /\ UNCHANGED stepState
             ELSE /\ stats' = [stats EXCEPT ![g].totalRqTunnel = @ + 1,
                                            ![g].totalTxAttempts = @ + 1]
                  /\ stepState' = [stepState EXCEPT ![g] =
                         [IdleStep EXCEPT !.pc = "attempt", !.action = action,
                                          !.channel = ch, !.msg = msgToSend]]
    /\ UNCHANGED <<cfgVars, autoVars, chanVars, inboundQueue, ackWaiters, flightPlan, histVars>>

\* (mutant) a refused AttemptTransmit call is not counted as a collision
GccAttemptCollisionUncounted(g) ==
    /\ g \in GroundStations
    /\ stepState[g].pc = "attempt"
    /\ LET ch == stepState[g].channel
           msg == stepState[g].msg
       IN /\ AttemptTransmit(ch, [msg EXCEPT !.Timestamp = 0], g)
          /\ IF AttemptTransmitWins(ch)
             THEN /\ outboundQueue' = [outboundQueue EXCEPT ![g] =
                                         removeMessageFromQueue(@, msg.MessageID)]
                  /\ stats' = [stats EXCEPT ![g].successfulTx = @ + 1]
             ELSE UNCHANGED <<stats, outboundQueue>>
    /\ stepState' = [stepState EXCEPT ![g] = IdleStep]
    /\ UNCHANGED <<cfgVars, autoVars, inboundQueue, ackWaiters, flightPlan, histVars>>

\* GroundControlCenter.attemptSendOnChannel from AttemptTransmit on
GccAttempt(g) ==
    /\ g \in GroundStations
    /\ stepState[g].pc = "attempt"
    /\ LET ch == stepState[g].channel
           msg == stepState[g].msg
       IN /\ AttemptTransmit(ch, [msg EXCEPT !.Timestamp = 0], g)
          /\ IF AttemptTransmitWins(ch)
             THEN /\ outboundQueue' = [outboundQueue EXCEPT ![g] =
                                         removeMessageFromQueue(@, msg.MessageID)]
                  /\ stats' = [stats EXCEPT ![g].successfulTx = @ + 1]
             ELSE /\ stats' = [stats EXCEPT ![g].totalCollisions = @ + 1]
                  /\ UNCHANGED outboundQueue
    /\ stepState' = [stepState EXCEPT ![g] = IdleStep]
    /\ UNCHANGED <<cfgVars, autoVars, inboundQueue, ackWaiters, flightPlan, histVars>>

\* ------------------------------------------ the aircraft's autonomous mode
\* the outcomes of rand.Float64() < p for a probability p given in percent
DrawOutcomes(p) == {b \in BOOLEAN : (b => p > 0) /\ (~b => p < 100)}

\* Channel.UpdatePValues: under the write lock the supplied table becomes the
\* channel's table
UpdatePValues(ch, newPMap) ==
    /\ pValues' = [pValues EXCEPT ![ch] = newPMap]
    /\ UNCHANGED <<driven, BackupChannel, switchoverProbabilities, newProbs, update,
                   roundTrip, server, observation, pendingReward, reward>>
    /\ UNCHANGED <<chanVars, autoVars, inboundQueue, outboundQueue, ackWaiters, stats,
                   stepState, flightPlan, histVars>>

\* (mutant) a priority without an entry gets probability 0
GetPForMessageNoDefault(ch, priority) ==
    IF priority \in DOMAIN pValues[ch] THEN pValues[ch][priority] ELSE 0

\* GetPForMessage: the configured probability, 0.1 for a priority without one
GetPForMessage(ch, priority) ==
    IF priority \in DOMAIN pValues[ch] THEN pValues[ch][priority] ELSE 10

\* (mutant) the table is not read
SwitchoverPZero(priority) == 0

\* the switchover probability read from the table, 0 for a priority without one
SwitchoverP(priority) ==
    IF priority \in DOMAIN switchoverProbabilities
    THEN switchoverProbabilities[priority] ELSE 0

\* (mutant) the primary's busy state is not tested
SelectChannelIgnoringIdle(msg) ==
    IF BackupChannel = NoChannel
    THEN {"P"}
    ELSE {IF draw THEN BackupChannel ELSE "P" :
             draw \in DrawOutcomes(SwitchoverP(msg.Priority))}

\* SelectChannelForMessage: the channels it can return for the message
SelectChannelForMessage(msg) ==
    IF BackupChannel = NoChannel \/ ~IsBusy("P")
    THEN {"P"}
    ELSE {IF draw THEN BackupChannel ELSE "P" :
             draw \in DrawOutcomes(SwitchoverP(msg.Priority))}

\* switchoverProbabilitiesMutex.RLock() succeeds: no writer holds the lock
RLockFree == update.pc = "idle"

\* the table with key k set to v
WithEntry(table, k, v) ==
    [x \in DOMAIN table \cup {k} |-> IF x = k THEN v ELSE table[x]]

\* (mutant) the supplied map itself is stored, not a copy of it
UpdateStoresReference ==
    /\ update.pc = "idle"
    /\ switchoverProbabilities' = newProbs
    /\ update' = [pc |-> "copy", todo |-> {}, aliased |-> TRUE]
    /\ UNCHANGED <<driven, BackupChannel, pValues, newProbs, roundTrip, server, observation, pendingReward, reward>>
    /\ UNCHANGED <<chanVars, autoVars, inboundQueue, outboundQueue, ackWaiters, stats,
                   stepState, flightPlan, histVars>>

\* UpdateSwitchoverProbabilities: Lock, and the field is set to a new, empty map
UpdateLock ==
    /\ update.pc = "idle"
    /\ switchoverProbabilities' = [x \in {} |-> 0]
    /\ update' = [pc |-> "copy", todo |-> DOMAIN newProbs, aliased |-> FALSE]
    /\ UNCHANGED <<driven, BackupChannel, pValues, newProbs, roundTrip, server, observation, pendingReward, reward>>
    /\ UNCHANGED <<chanVars, autoVars, inboundQueue, outboundQueue, ackWaiters, stats,
                   stepState, flightPlan, histVars>>

\* UpdateSwitchoverProbabilities: one round of the loop over newProbs
UpdateCopy(k) ==
    /\ update.pc = "copy"
    /\ k \in update.todo
    /\ switchoverProbabilities' = WithEntry(switchoverProbabilities, k, newProbs[k])
    /\ update' = [update EXCEPT !.todo = @ \ {k}]
    /\ UNCHANGED <<driven, BackupChannel, pValues, newProbs, roundTrip, server, observation, pendingReward, reward>>
    /\ UNCHANGED <<chanVars, autoVars, inboundQueue, outboundQueue, ackWaiters, stats,
                   stepState, flightPlan, histVars>>

\* UpdateSwitchoverProbabilities: the deferred Unlock at the return
UpdateUnlock ==
    /\ update.pc = "copy"
    /\ update.todo = {}
    /\ update' = [update EXCEPT !.pc = "idle"]
    /\ UNCHANGED <<driven, BackupChannel, pValues, switchoverProbabilities, newProbs,
                   roundTrip, server, observation, pendingReward, reward>>
    /\ UNCHANGED <<chanVars, autoVars, inboundQueue, outboundQueue, ackWaiters, stats,
                   stepState, flightPlan, histVars>>

\* the caller changes an entry of its own table between two calls; a map that
\* the system shares with the caller changes with it
CallerWrites(k, v) ==
    /\ update.pc = "idle"
    /\ newProbs' = WithEntry(newProbs, k, v)
    /\ newProbs' # newProbs
    /\ switchoverProbabilities' =
          IF update.aliased THEN newProbs' ELSE switchoverProbabilities
    /\ UNCHANGED <<driven, BackupChannel, pValues, update, roundTrip, server, observation, pendingReward, reward>>
    /\ UNCHANGED <<chanVars, autoVars, inboundQueue, outboundQueue, ackWaiters, stats,
                   stepState, flightPlan, histVars>>

\* polling rounds of one agent that found the channel idle and lost the draw
Deferrals(a) ==
    stats[a].totalRqTunnel - stats[a].totalTxAttempts - stats[a].totalFailRqTunnel

\* the flight plan starts the goroutine: go a.SendMessage(msg, comms)
SendMessageStart(m) ==
    /\ m \in flightPlan
    /\ m.Sender \in driven
    /\ sendState[m.MessageID].pc = "idle"
    /\ flightPlan' = flightPlan \ {m}
    /\ sendState' = [sendState EXCEPT ![m.MessageID].pc = "loop"]
    /\ UNCHANGED <<cfgVars, chanVars, inboundQueue, outboundQueue, ackWaiters,
                   stats, stepState, ackWaiterChans, listenState, histVars>>

\* the loop test of SendMessage
MayTryAgain(retries) == retries < MaxRetries

\* SendMessage, head of the outer loop: give up after MaxRetries rounds, else
\* count a retry after the first round and select the channel
SendLoop(m) ==
    /\ sendState[m.MessageID].pc = "loop"
    /\ LET id == m.MessageID
           retries == sendState[id].retries
       IN IF MayTryAgain(retries)
          THEN /\ stats' = [stats EXCEPT ![m.Sender].totalRetries =
                               IF retries > 0 THEN @ + 1 ELSE @]
               /\ retryCount' = [retryCount EXCEPT ![id] =
                               IF retries > 0 THEN @ + 1 ELSE @]
               /\ (BackupChannel # NoChannel /\ IsBusy("P")) => RLockFree
               /\ \E ch \in SelectChannelForMessage(m) :
                     sendState' = [sendState EXCEPT ![id].pc = "csma",
                                                    ![id].targetChannel = ch,
                                                    ![id].p = GetPForMessage(ch, m.Priority)]
               /\ UNCHANGED exhausted
          ELSE /\ sendState' = [sendState EXCEPT ![id].pc = "exhausted"]
               /\ exhausted' = exhausted \cup {id}
               /\ UNCHANGED <<stats, retryCount>>
    /\ UNCHANGED <<cfgVars, chanVars, inboundQueue, outboundQueue, ackWaiters,
                   stepState, flightPlan, ackWaiterChans, listenState, acknowledged>>

\* one polling round up to the draw: busy or a lost draw sleeps one time slot
SendCsma(m) ==
    /\ sendState[m.MessageID].pc = "csma"
    /\ LET id == m.MessageID
           a == m.Sender
           ch == sendState[id].targetChannel
       IN IF IsBusy(ch)
          THEN /\ stats[a].totalFailRqTunnel < MaxFailRq
               /\ stats' = [stats EXCEPT ![a].totalRqTunnel = @ + 1,
                                         ![a].totalFailRqTunnel = @ + 1]
               /\ UNCHANGED sendState
          ELSE \E draw \in DrawOutcomes(sendState[id].p) :
                 IF draw
                 THEN /\ stats[a].totalTxAttempts < TxCap
                      /\ stats' = [stats EXCEPT ![a].totalRqTunnel = @ + 1,
                                                ![a].totalTxAttempts = @ + 1]
                      /\ sendState' = [sendState EXCEPT ![id].pc = "attempt"]
                 ELSE /\ Deferrals(a) < MaxDeferrals
                      /\ stats' = [stats EXCEPT ![a].totalRqTunnel = @ + 1]
                      /\ UNCHANGED sendState
    /\ UNCHANGED <<cfgVars, chanVars, inboundQueue, outboundQueue, ackWaiters,
                   stepState, flightPlan, ackWaiterChans, listenState, histVars>>

\* AttemptTransmit of the round: a commit stores a fresh ack channel and waits,
\* a refusal counts a collision and sleeps one time slot
SendAttempt(m) ==
    /\ sendState[m.MessageID].pc = "attempt"
    /\ LET id == m.MessageID
           ch == sendState[id].targetChannel
       IN /\ AttemptTransmit(ch, m, m.Sender)
          /\ IF AttemptTransmitWins(ch)
             THEN /\ ackWaiterChans' = [ackWaiterChans EXCEPT ![id] =
                         [chan |-> sendState[id].retries, buf |-> 0]]
                  /\ sendState' = [sendState EXCEPT ![id].pc = "waitAck"]
                  /\ UNCHANGED stats
             ELSE /\ stats' = [stats EXCEPT ![m.Sender].totalCollisions = @ + 1]
                  /\ sendState' = [sendState EXCEPT ![id].pc = "csma"]
                  /\ UNCHANGED ackWaiterChans
    /\ UNCHANGED <<cfgVars, inboundQueue, outboundQueue, ackWaiters, stepState,
                   flightPlan, listenState, histVars>>

\* the select takes the signal from the ack channel: success, waiter deleted;
\* a listening loop blocked in a send on this channel completes its send
SendAckReceived(m) ==
    /\ sendState[m.MessageID].pc = "waitAck"
    /\ ackWaiterChans[m.MessageID].buf = 1
    /\ stats' = [stats EXCEPT ![m.Sender].successfulTx = @ + 1]
    /\ listenState' = [a \in Aircraft |->
          IF listenState[a].pc = "blocked"
             /\ listenState[a].chan = ackWaiterChans[m.MessageID].chan
          THEN NotBlocked ELSE listenState[a]]
    /\ ackWaiterChans' = [ackWaiterChans EXCEPT ![m.MessageID] = NoChan]
    /\ sendState' = [sendState EXCEPT ![m.MessageID].pc = "done"]
    /\ acknowledged' = acknowledged \cup {m.MessageID}
    /\ UNCHANGED <<cfgVars, chanVars, inboundQueue, outboundQueue, ackWaiters,
                   stepState, flightPlan, retryCount, exhausted>>

\* the select takes time.After(AckTimeout): waiter deleted, next round
SendAckTimeout(m) ==
    /\ sendState[m.MessageID].pc = "waitAck"
    /\ ackWaiterChans' = [ackWaiterChans EXCEPT ![m.MessageID] = NoChan]
    /\ sendState' = [sendState EXCEPT ![m.MessageID].pc = "loop",
                                      ![m.MessageID].retries = @ + 1]
    /\ UNCHANGED <<cfgVars, chanVars, inboundQueue, outboundQueue, ackWaiters,
                   stats, stepState, flightPlan, listenState, histVars>>

\* StartListening of the autonomous aircraft, one inbound message: an
\* acknowledgment with a waiter is signalled on the waiter's channel
ListenAuto(a) ==
    /\ a \in Aircraft /\ a \in driven
    /\ listenState[a].pc = "recv"
    /\ inboundQueue[a] # <<>>
    /\ inboundQueue' = [inboundQueue EXCEPT ![a] = Tail(@)]
    /\ LET msg == Head(inboundQueue[a]) IN
         IF /\ msg.Type = MsgTypeAck
            /\ msg.Orig \in DOMAIN ackWaiterChans
            /\ ackWaiterChans[msg.Orig] # NoChan
         THEN IF ackWaiterChans[msg.Orig].buf = 0
              THEN /\ ackWaiterChans' = [ackWaiterChans EXCEPT ![msg.Orig].buf = 1]
                   /\ UNCHANGED listenState
              ELSE /\ listenState' = [listenState EXCEPT ![a] =
                          [pc |-> "blocked", chan |-> ackWaiterChans[msg.Orig].chan]]
                   /\ UNCHANGED ackWaiterChans
         ELSE UNCHANGED <<ackWaiterChans, listenState>>
    /\ UNCHANGED <<cfgVars, chanVars, outboundQueue, ackWaiters, stats, stepState,
                   flightPlan, sendState, histVars>>

\* ---------------------------------------------------------------- the clock
Older(n) == Min(n + 1, AgeCap)

\* one tick passes: every recorded instant is one tick older
Tick ==
    /\ ackWaiters' = [a \in DOMAIN ackWaiters |-> [id \in DOMAIN ackWaiters[a] |->
                        IF ackWaiters[a][id] = None THEN None
                        ELSE [ackWaiters[a][id] EXCEPT !.sendTime = Older(@)]]]
    /\ outboundQueue' = [a \in Agents |->
                           IF a \in GroundStations
                           THEN [i \in 1..Len(outboundQueue[a]) |->
                                   [outboundQueue[a][i] EXCEPT !.Timestamp = Older(@)]]
                           ELSE outboundQueue[a]]
    /\ UNCHANGED <<cfgVars, autoVars, chanVars, inboundQueue, stats, stepState, flightPlan,
                   histVars>>

\* ------------------------------------------------------- the specifications
\* NewServer and NewAircraft: no episode yet, no call in progress, no reward
InitServer ==
    /\ server = NoServer
    /\ observation = [a \in Agents |-> NoObservation]
    /\ pendingReward = [a \in Aircraft |-> 0]
    /\ reward = [a \in Aircraft |-> 0]

InitProgram ==
    /\ InitServer
    /\ pValues = [ch \in Channels |-> IF ch = "P" THEN PrimaryPMap ELSE BackupPMap]
    /\ switchoverProbabilities = SwitchoverProbs
    /\ newProbs = SwitchoverProbs
    /\ update = IdleUpdate
    /\ isBusy = [ch \in Channels |-> FALSE]
    /\ messageQueue = [ch \in Channels |-> <<>>]
    /\ totalMessagesTransmitted = [ch \in Channels |-> 0]
    /\ totalBusyTime = [ch \in Channels |-> 0]
    /\ txGoroutines = {}
    /\ inboundQueue = [a \in Agents |-> <<>>]
    /\ outboundQueue = [a \in Agents |-> <<>>]
    /\ ackWaiters = [a \in Aircraft |-> [id \in MessageIDs |-> None]]
    /\ stats = [a \in Agents |-> ZeroStats]
    /\ stepState = [a \in Agents |-> IdleStep]
    /\ acknowledged = {}
    /\ retryCount = [id \in MessageIDs |-> 0]
    /\ exhausted = {}
    /\ sendState = [id \in MessageIDs |-> IdleSend]
    /\ ackWaiterChans = [id \in MessageIDs |-> NoChan]
    /\ listenState = [a \in Aircraft |-> NotBlocked]

InitCommon ==
    /\ InitProgram
    /\ roundTrip = NoRoundTrip

\* every agent listens and is stepped, primary and backup channel
Init ==
    /\ InitCommon
    /\ driven = Agents
    /\ BackupChannel = "B"
    /\ flightPlan = FlightPlanMessages

Next ==
    \/ \E m \in FlightPlanMessages : Enqueue(m)
    \/ \E a \in Aircraft, action \in AgentAction : StepBegin(a, action)
    \/ \E a \in Aircraft : StepRequeue(a)
    \/ \E a \in Aircraft : StepAct(a)
    \/ \E a \in Aircraft : StepAttempt(a)
    \/ \E a \in Aircraft : AircraftListen(a)
    \/ \E g \in GroundStations : GccProcessMessage(g)
    \/ \E g \in GroundStations, action \in AgentAction : GccStep(g, action)
    \/ \E g \in GroundStations : GccAttempt(g)
    \/ \E t \in txGoroutines : TxBroadcast(t)
    \/ \E t \in txGoroutines : TxRelease(t)
    \/ \E ch \in Channels : Dispatch(ch)
    \/ Tick

Spec == Init /\ [][Next]_vars

\* the aircraft sends on its own: SendMessage goroutines and the listening
\* loop of the autonomous mode, the ground station acknowledges under Step
InitAuto ==
    /\ InitCommon
    /\ driven = Agents
    /\ BackupChannel = "B"
    /\ flightPlan = FlightPlanMessages

NextAuto ==
    \/ \E m \in FlightPlanMessages : SendMessageStart(m)
    \/ \E m \in FlightPlanMessages : SendLoop(m)
    \/ \E m \in FlightPlanMessages : SendCsma(m)
    \/ \E m \in FlightPlanMessages : SendAttempt(m)
    \/ \E m \in FlightPlanMessages : SendAckReceived(m)
    \/ \E m \in FlightPlanMessages : SendAckTimeout(m)
    \/ \E a \in Aircraft : ListenAuto(a)
    \/ \E g \in GroundStations : GccProcessMessage(g)
    \/ \E g \in GroundStations, action \in AgentAction : GccStep(g, action)
    \/ \E g \in GroundStations : GccAttempt(g)
    \/ \E t \in txGoroutines : TxBroadcast(t)
    \/ \E t \in txGoroutines : TxRelease(t)
    \/ \E ch \in Channels : Dispatch(ch)
    \/ Tick

SpecAuto == InitAuto /\ [][NextAuto]_vars

\* Scenario 3 in the autonomous mode: a single aircraft on a single channel,
\* nobody acknowledges
InitAutoNoAck ==
    /\ InitCommon
    /\ driven = {"A1"}
    /\ BackupChannel = NoChannel
    /\ flightPlan = FlightPlanMessages

NextAutoNoAck ==
    \/ \E m \in FlightPlanMessages : SendMessageStart(m)
    \/ \E m \in FlightPlanMessages : SendLoop(m)
    \/ \E m \in FlightPlanMessages : SendCsma(m)
    \/ \E m \in FlightPlanMessages : SendAttempt(m)
    \/ \E m \in FlightPlanMessages : SendAckTimeout(m)
    \/ \E a \in Aircraft : ListenAuto(a)
    \/ \E t \in txGoroutines : TxBroadcast(t)
    \/ \E t \in txGoroutines : TxRelease(t)
    \/ \E ch \in Channels : Dispatch(ch)

SpecAutoNoAck == InitAutoNoAck /\ [][NextAutoNoAck]_vars

NextNoAck ==
    \/ \E m \in FlightPlanMessages : Enqueue(m)
    \/ \E a \in Aircraft, action \in AgentAction : StepBegin(a, action)
    \/ \E a \in Aircraft : StepRequeue(a)
    \/ \E a \in Aircraft : StepAct(a)
    \/ \E a \in Aircraft : StepAttempt(a)
    \/ \E a \in Aircraft : AircraftListen(a)
    \/ \E t \in txGoroutines : TxBroadcast(t)
    \/ \E t \in txGoroutines : TxRelease(t)
    \/ \E ch \in Channels : Dispatch(ch)
    \/ Tick

\* Scenario 3: a single aircraft on a single channel, nobody acknowledges
InitNoAck ==
    /\ InitCommon
    /\ driven = {"A1"}
    /\ BackupChannel = NoChannel
    /\ flightPlan = FlightPlanMessages

SpecNoAck == InitNoAck /\ [][NextNoAck]_vars

\* ------------------------------------------- the outbound queue on its own
\* the messages of the queue scenario, numbered in their order of arrival
QueueID(i) == "q" \o ToString(i)
QueueMessage(i, prio) == DataMessage(QueueID(i), "A1", prio)
QueuePriorities == {HighPriority, MediumPriority, LowPriority}
LastArrival == maxInsertion + 2
Arrival(m) == CHOOSE i \in 1..LastArrival : QueueID(i) = m.MessageID

\* the queue after nH High, nM Medium and nL Low messages were enqueued, the
\* sort being an insertion sort up to maxInsertion elements
QueueOf(nH, nM, nL) ==
    [i \in 1..(nH + nM + nL) |->
        QueueMessage(i, IF i <= nH THEN HighPriority
                        ELSE IF i <= nH + nM THEN MediumPriority
                        ELSE LowPriority)]

\* the messages still to arrive
LateArrivals ==
    {QueueMessage(i, prio) : i \in (maxInsertion + 1)..LastArrival, prio \in QueuePriorities}

InitQueue ==
    /\ driven = {"A1"}
    /\ BackupChannel = NoChannel
    /\ pValues = [ch \in Channels |-> IF ch = "P" THEN PrimaryPMap ELSE BackupPMap]
    /\ switchoverProbabilities = SwitchoverProbs
    /\ newProbs = SwitchoverProbs
    /\ update = IdleUpdate
    /\ roundTrip = NoRoundTrip
    /\ InitServer
    /\ isBusy = [ch \in Channels |-> FALSE]
    /\ messageQueue = [ch \in Channels |-> <<>>]
    /\ totalMessagesTransmitted = [ch \in Channels |-> 0]
    /\ totalBusyTime = [ch \in Channels |-> 0]
    /\ txGoroutines = {}
    /\ inboundQueue = [a \in Agents |-> <<>>]
    /\ \E nH, nM, nL \in 0..maxInsertion :
          /\ nH + nM + nL <= maxInsertion
          /\ outboundQueue = [a \in Agents |->
                                IF a = "A1" THEN QueueOf(nH, nM, nL) ELSE <<>>]
    /\ ackWaiters = [a \in Aircraft |-> [id \in MessageIDs |-> None]]
    /\ stats = [a \in Agents |-> ZeroStats]
    /\ stepState = [a \in Agents |-> IdleStep]
    /\ flightPlan = LateArrivals
    /\ acknowledged = {}
    /\ retryCount = [id \in MessageIDs |-> 0]
    /\ exhausted = {}
    /\ sendState = [id \in MessageIDs |-> IdleSend]
    /\ ackWaiterChans = [id \in MessageIDs |-> NoChan]
    /\ listenState = [a \in Aircraft |-> NotBlocked]

\* EnqueueMessage for the next message to arrive
QueueEnqueue(m) ==
    /\ m \in flightPlan
    /\ \A n \in flightPlan : Arrival(m) <= Arrival(n)
    /\ Len(outboundQueue[m.Sender]) <= maxInsertion
    /\ flightPlan' = {n \in flightPlan : n.MessageID # m.MessageID}
    /\ outboundQueue' = [outboundQueue EXCEPT ![m.Sender] = EnqueueMessage(@, m)]
    /\ UNCHANGED <<cfgVars, autoVars, chanVars, inboundQueue, ackWaiters, stats, stepState,
                   histVars>>

\* Step reads the message to send: msgToSend := peekHighestPriorityMessage()
QueuePeek(a) ==
    /\ a \in Aircraft
    /\ stepState[a].pc = "idle"
    /\ stepState' = [stepState EXCEPT ![a].pc = "peeked",
                                       ![a].msg = peekHighestPriorityMessage(outboundQueue[a])]
    /\ UNCHANGED <<cfgVars, autoVars, chanVars, inboundQueue, outboundQueue, ackWaiters,
                   stats, flightPlan, histVars>>

\* the Step ends: a message read is removed as at a commit
\* (removeMessageFromQueue), nothing is removed when none was read
QueueRemove(a) ==
    /\ a \in Aircraft
    /\ stepState[a].pc = "peeked"
    /\ outboundQueue' = [outboundQueue EXCEPT ![a] =
                            IF stepState[a].msg = None THEN @
                            ELSE removeMessageFromQueue(@, stepState[a].msg.MessageID)]
    /\ stepState' = [stepState EXCEPT ![a] = IdleStep]
    /\ UNCHANGED <<cfgVars, autoVars, chanVars, inboundQueue, ackWaiters, stats,
                   flightPlan, histVars>>

NextQueue ==
    \/ \E m \in LateArrivals : QueueEnqueue(m)
    \/ \E a \in Aircraft : QueuePeek(a)
    \/ \E a \in Aircraft : QueueRemove(a)

SpecQueue == InitQueue /\ [][NextQueue]_vars

\* --------------------------------------------- channel selection on its own
\* the switchover tables of the selection scenario: any set of priorities with
\* probabilities 0, 0.5 or 1.0
SwitchoverTables ==
    UNION {[S -> {0, 50, 100}] : S \in SUBSET Priorities}

\* a transmission of the ground station in progress on channel ch
ForeignTransmission(ch) ==
    [ch |-> ch, msg |-> AckMessage("G", DataMessage("m0", "A1", LowPriority)),
     sender |-> "G", pc |-> "sleep"]

\* the aircraft is about to send its message; each channel is idle or carries
\* a transmission, with or without a backup channel, under any switchover table
InitSelect ==
    /\ driven = {"A1"}
    /\ BackupChannel \in {"B", NoChannel}
    /\ pValues = [ch \in Channels |-> IF ch = "P" THEN PrimaryPMap ELSE BackupPMap]
    /\ switchoverProbabilities \in SwitchoverTables
    /\ newProbs = switchoverProbabilities
    /\ update = IdleUpdate
    /\ roundTrip = NoRoundTrip
    /\ InitServer
    /\ isBusy \in [Channels -> BOOLEAN]
    /\ BackupChannel = NoChannel => ~isBusy["B"]
    /\ txGoroutines = {ForeignTransmission(ch) : ch \in {c \in Channels : isBusy[c]}}
    /\ messageQueue = [ch \in Channels |-> <<>>]
    /\ totalMessagesTransmitted = [ch \in Channels |-> 0]
    /\ totalBusyTime = [ch \in Channels |-> 0]
    /\ inboundQueue = [a \in Agents |-> <<>>]
    /\ outboundQueue = [a \in Agents |-> <<>>]
    /\ ackWaiters = [a \in Aircraft |-> [id \in MessageIDs |-> None]]
    /\ stats = [a \in Agents |-> ZeroStats]
    /\ stepState = [a \in Agents |-> IdleStep]
    /\ flightPlan = FlightPlanMessages
    /\ acknowledged = {}
    /\ retryCount = [id \in MessageIDs |-> 0]
    /\ exhausted = {}
    /\ sendState = [id \in MessageIDs |-> IdleSend]
    /\ ackWaiterChans = [id \in MessageIDs |-> NoChan]
    /\ listenState = [a \in Aircraft |-> NotBlocked]

\* SendMessage up to the selection of the channel, while the transmissions
\* in progress complete
NextSelect ==
    \/ \E m \in FlightPlanMessages : SendMessageStart(m)
    \/ \E m \in FlightPlanMessages : SendLoop(m)
    \/ \E t \in txGoroutines : TxBroadcast(t)
    \/ \E t \in txGoroutines : TxRelease(t)

SpecSelect == InitSelect /\ [][NextSelect]_vars

\* ------------------------------------------------------------------- Reset
\* Aircraft.Reset, first part: the counters are stored as zero and the
\* outbound queue is replaced by an empty one
AircraftResetCounters(a) ==
    /\ a \in Aircraft /\ a \in driven
    /\ stepState[a].pc = "idle"
    /\ stats' = [stats EXCEPT ![a] = ZeroStats]
    /\ outboundQueue' = [outboundQueue EXCEPT ![a] = <<>>]
    /\ stepState' = [stepState EXCEPT ![a] = [IdleStep EXCEPT !.pc = "reset"]]
    /\ UNCHANGED <<cfgVars, autoVars, chanVars, inboundQueue, ackWaiters, flightPlan,
                   histVars>>

\* Aircraft.Reset, second part: ackWaiters.Range deletes every entry
AircraftResetWaiters(a) ==
    /\ a \in Aircraft
    /\ stepState[a].pc = "reset"
    /\ ackWaiters' = [ackWaiters EXCEPT ![a] = [id \in DOMAIN @ |-> None]]
    /\ stepState' = [stepState EXCEPT ![a] = IdleStep]
    /\ UNCHANGED <<cfgVars, autoVars, chanVars, inboundQueue, outboundQueue, stats,
                   flightPlan, histVars>>

\* GroundControlCenter.Reset, first part: the counters are stored as zero
GccResetCounters(g) ==
    /\ g \in GroundStations /\ g \in driven
    /\ stepState[g].pc = "idle"
    /\ stats' = [stats EXCEPT ![g] = ZeroStats]
    /\ stepState' = [stepState EXCEPT ![g] = [IdleStep EXCEPT !.pc = "reset"]]
    /\ UNCHANGED <<cfgVars, autoVars, chanVars, inboundQueue, outboundQueue, ackWaiters,
                   flightPlan, histVars>>

\* GroundControlCenter.Reset, second part: the outbound queue is replaced by
\* an empty one
GccResetQueue(g) ==
    /\ g \in GroundStations
    /\ stepState[g].pc = "reset"
    /\ outboundQueue' = [outboundQueue EXCEPT ![g] = <<>>]
    /\ stepState' = [stepState EXCEPT ![g] = IdleStep]
    /\ UNCHANGED <<cfgVars, autoVars, chanVars, inboundQueue, ackWaiters, stats,
                   flightPlan, histVars>>

\* every agent listens, is stepped and is reset on the single channel
InitReset ==
    /\ InitCommon
    /\ driven = Agents
    /\ BackupChannel = NoChannel
    /\ flightPlan = FlightPlanMessages

NextReset ==
    \/ \E m \in FlightPlanMessages : Enqueue(m)
    \/ \E a \in Aircraft, action \in AgentAction : StepBegin(a, action)
    \/ \E a \in Aircraft : StepRequeue(a)
    \/ \E a \in Aircraft : StepAct(a)
    \/ \E a \in Aircraft : StepAttempt(a)
    \/ \E a \in Aircraft : AircraftListen(a)
    \/ \E a \in Aircraft : AircraftResetCounters(a)
    \/ \E a \in Aircraft : AircraftResetWaiters(a)
    \/ \E g \in GroundStations : GccProcessMessage(g)
    \/ \E g \in GroundStations, action \in AgentAction : GccStep(g, action)
    \/ \E g \in GroundStations : GccAttempt(g)
    \/ \E g \in GroundStations : GccResetCounters(g)
    \/ \E g \in GroundStations : GccResetQueue(g)
    \/ \E t \in txGoroutines : TxBroadcast(t)
    \/ \E t \in txGoroutines : TxRelease(t)
    \/ \E ch \in Channels : Dispatch(ch)
    \/ Tick

SpecReset == InitReset /\ [][NextReset]_vars

\* ------------------------------------------- traffic of another aircraft
\* what another aircraft has put on the channel: a data message, which the
\* ground station will acknowledge, or an acknowledgment with a broken payload
OtherAircraftMessage == DataMessage("m2", "A2", LowPriority)
MalformedAck ==
    [MessageID |-> "x1", Sender |-> "A2", Type |-> MsgTypeAck,
     Priority |-> CriticalPriority, Orig |-> MalformedData,
     OriginMessagePriority |-> "", Timestamp |-> 0]

\* every agent listens and is stepped on the single channel, whose broadcast
\* queue holds a message of the other aircraft
InitListen ==
    /\ driven = Agents
    /\ BackupChannel = NoChannel
    /\ pValues = [ch \in Channels |-> IF ch = "P" THEN PrimaryPMap ELSE BackupPMap]
    /\ switchoverProbabilities = SwitchoverProbs
    /\ newProbs = SwitchoverProbs
    /\ update = IdleUpdate
    /\ roundTrip = NoRoundTrip
    /\ InitServer
    /\ isBusy = [ch \in Channels |-> FALSE]
    /\ \E x \in {OtherAircraftMessage, MalformedAck} :
          messageQueue = [ch \in Channels |-> IF ch = "P" THEN <<x>> ELSE <<>>]
    /\ totalMessagesTransmitted = [ch \in Channels |-> 0]
    /\ totalBusyTime = [ch \in Channels |-> 0]
    /\ txGoroutines = {}
    /\ inboundQueue = [a \in Agents |-> <<>>]
    /\ outboundQueue = [a \in Agents |-> <<>>]
    /\ ackWaiters = [a \in Aircraft |-> [id \in MessageIDs |-> None]]
    /\ stats = [a \in Agents |-> ZeroStats]
    /\ stepState = [a \in Agents |-> IdleStep]
    /\ flightPlan = FlightPlanMessages
    /\ acknowledged = {}
    /\ retryCount = [id \in MessageIDs |-> 0]
    /\ exhausted = {}
    /\ sendState = [id \in MessageIDs |-> IdleSend]
    /\ ackWaiterChans = [id \in MessageIDs |-> NoChan]
    /\ listenState = [a \in Aircraft |-> NotBlocked]

SpecListen == InitListen /\ [][Next]_vars

\* every agent listens and is stepped, with or without a backup channel
InitStep ==
    /\ InitCommon
    /\ driven = Agents
    /\ BackupChannel \in {"B", NoChannel}
    /\ flightPlan = FlightPlanMessages

SpecStep == InitStep /\ [][Next]_vars

\* the tables a caller supplies in the update scenario
CallerKeys == {HighPriority, LowPriority}
CallerValues == {0, 100}
CallerTables == UNION {[S -> CallerValues] : S \in SUBSET CallerKeys}

\* the aircraft is about to send its message, each channel is idle or carries
\* a transmission; NewCommunicationSystem has stored a copy of the caller's
\* table
InitUpdate ==
    /\ driven = {"A1"}
    /\ BackupChannel \in {"B", NoChannel}
    /\ pValues = [ch \in Channels |-> IF ch = "P" THEN PrimaryPMap ELSE BackupPMap]
    /\ newProbs \in CallerTables
    /\ switchoverProbabilities = newProbs
    /\ update = IdleUpdate
    /\ roundTrip = NoRoundTrip
    /\ InitServer
    /\ isBusy \in [Channels -> BOOLEAN]
    /\ BackupChannel = NoChannel => ~isBusy["B"]
    /\ txGoroutines = {ForeignTransmission(ch) : ch \in {c \in Channels : isBusy[c]}}
    /\ messageQueue = [ch \in Channels |-> <<>>]
    /\ totalMessagesTransmitted = [ch \in Channels |-> 0]
    /\ totalBusyTime = [ch \in Channels |-> 0]
    /\ inboundQueue = [a \in Agents |-> <<>>]
    /\ outboundQueue = [a \in Agents |-> <<>>]
    /\ ackWaiters = [a \in Aircraft |-> [id \in MessageIDs |-> None]]
    /\ stats = [a \in Agents |-> ZeroStats]
    /\ stepState = [a \in Agents |-> IdleStep]
    /\ flightPlan = FlightPlanMessages
    /\ acknowledged = {}
    /\ retryCount = [id \in MessageIDs |-> 0]
    /\ exhausted = {}
    /\ sendState = [id \in MessageIDs |-> IdleSend]
    /\ ackWaiterChans = [id \in MessageIDs |-> NoChan]
    /\ listenState = [a \in Aircraft |-> NotBlocked]

NextUpdate ==
    \/ \E m \in FlightPlanMessages : SendMessageStart(m)
    \/ \E m \in FlightPlanMessages : SendLoop(m)
    \/ \E t \in txGoroutines : TxBroadcast(t)
    \/ \E t \in txGoroutines : TxRelease(t)
    \/ UpdateLock
    \/ \E k \in CallerKeys : UpdateCopy(k)
    \/ UpdateUnlock
    \/ \E k \in CallerKeys, v \in CallerValues : CallerWrites(k, v)

SpecUpdate == InitUpdate /\ [][NextUpdate]_vars

\* the aircraft polls its channel while the access probabilities are updated
NextPValues ==
    \/ \E m \in FlightPlanMessages : SendMessageStart(m)
    \/ \E m \in FlightPlanMessages : SendLoop(m)
    \/ \E m \in FlightPlanMessages : SendCsma(m)
    \/ \E t \in txGoroutines : TxBroadcast(t)
    \/ \E t \in txGoroutines : TxRelease(t)
    \/ \E ch \in Channels, newPMap \in CallerTables : UpdatePValues(ch, newPMap)

SpecPValues == InitUpdate /\ [][NextPValues]_vars

\* a message is created, marshalled, unmarshalled and its data decoded
InitRoundTrip ==
    /\ InitProgram
    /\ driven = {}
    /\ BackupChannel = NoChannel
    /\ flightPlan = {}
    /\ \E base \in BaseMessages, data \in FaultData :
          roundTrip = [NoRoundTrip EXCEPT !.pc = "input", !.base = base, !.data = data]

NextRoundTrip ==
    \/ RoundTripCreate
    \/ RoundTripMarshal
    \/ RoundTripUnmarshal
    \/ RoundTripDecode

SpecRoundTrip == InitRoundTrip /\ [][NextRoundTrip]_vars

\* ------------------------------------------ acknowledgments of a ground station
\* the i-th data message the ground station receives, of an aircraft
ReceivedMessage(i, prio) == DataMessage(QueueID(i), "A1", prio)

\* the channel hands a data message of an aircraft to the listening ground
\* station, the messages in the order of their numbers
GccReceive(g, m) ==
    /\ g \in GroundStations /\ g \in driven
    /\ m \in flightPlan
    /\ \A n \in flightPlan : Arrival(m) <= Arrival(n)
    /\ Len(inboundQueue[g]) < InboundCap
    /\ inboundQueue' = [inboundQueue EXCEPT ![g] = Deliver(@, m)]
    /\ flightPlan' = flightPlan \ {m}
    /\ UNCHANGED <<cfgVars, autoVars, chanVars, outboundQueue, ackWaiters, stats, stepState,
                   histVars>>

\* a ground station on the primary channel that is to receive MaxAcks data
\* messages of any priorities
InitAcks ==
    /\ InitCommon
    /\ driven = GroundStations
    /\ BackupChannel = NoChannel
    /\ \E prios \in [1..MaxAcks -> Priorities] :
          flightPlan = {ReceivedMessage(i, prios[i]) : i \in 1..MaxAcks}

NextAcks ==
    \/ \E g \in GroundStations, m \in flightPlan : GccReceive(g, m)
    \/ \E g \in GroundStations : GccProcessMessage(g)
    \/ \E g \in GroundStations, action \in AgentAction : GccStep(g, action)
    \/ \E g \in GroundStations : GccAttempt(g)
    \/ \E t \in txGoroutines : TxBroadcast(t)
    \/ \E t \in txGoroutines : TxRelease(t)
    \/ \E ch \in Channels : Dispatch(ch)

SpecAcks == InitAcks /\ [][NextAcks]_vars

\* the ground station of the acknowledgment scenario while time passes
NextExpiry ==
    \/ NextAcks
    \/ Tick

SpecExpiry == InitAcks /\ [][NextExpiry]_vars

\* ------------------------------------------- a second ground station
\* what the channel carries when a second ground station is registered on the
\* same CommunicationSystem: the data message of another aircraft, or the
\* acknowledgment that the other station has sent for it
OtherStationAck == AckMessage("G2", OtherAircraftMessage)

InitStations ==
    /\ driven = Agents
    /\ BackupChannel = NoChannel
    /\ pValues = [ch \in Channels |-> IF ch = "P" THEN PrimaryPMap ELSE BackupPMap]
    /\ switchoverProbabilities = SwitchoverProbs
    /\ newProbs = SwitchoverProbs
    /\ update = IdleUpdate
    /\ roundTrip = NoRoundTrip
    /\ InitServer
    /\ isBusy = [ch \in Channels |-> FALSE]
    /\ \E x \in {OtherAircraftMessage, OtherStationAck} :
          messageQueue = [ch \in Channels |-> IF ch = "P" THEN <<x>> ELSE <<>>]
    /\ totalMessagesTransmitted = [ch \in Channels |-> 0]
    /\ totalBusyTime = [ch \in Channels |-> 0]
    /\ txGoroutines = {}
    /\ inboundQueue = [a \in Agents |-> <<>>]
    /\ outboundQueue = [a \in Agents |-> <<>>]
    /\ ackWaiters = [a \in Aircraft |-> [id \in MessageIDs |-> None]]
    /\ stats = [a \in Agents |-> ZeroStats]
    /\ stepState = [a \in Agents |-> IdleStep]
    /\ flightPlan = FlightPlanMessages
    /\ acknowledged = {}
    /\ retryCount = [id \in MessageIDs |-> 0]
    /\ exhausted = {}
    /\ sendState = [id \in MessageIDs |-> IdleSend]
    /\ ackWaiterChans = [id \in MessageIDs |-> NoChan]
    /\ listenState = [a \in Aircraft |-> NotBlocked]

SpecStations == InitStations /\ [][Next]_vars

\* ------------------------------------------------------ the send window
\* a flight plan with more messages than the send window has room for
WindowMessages ==
    {DataMessage(id, "A1", HighPriority) : id \in {"m1", "m2", "m3", "m4"}}
WindowIDs == {m.MessageID : m \in WindowMessages}

\* the stepped aircraft alone on the single channel, nobody acknowledges and
\* the run is shorter than the ack timeout
InitWindow ==
    /\ driven = Aircraft
    /\ BackupChannel = NoChannel
    /\ pValues = [ch \in Channels |-> IF ch = "P" THEN PrimaryPMap ELSE BackupPMap]
    /\ switchoverProbabilities = SwitchoverProbs
    /\ newProbs = SwitchoverProbs
    /\ update = IdleUpdate
    /\ roundTrip = NoRoundTrip
    /\ InitServer
    /\ isBusy = [ch \in Channels |-> FALSE]
    /\ messageQueue = [ch \in Channels |-> <<>>]
    /\ totalMessagesTransmitted = [ch \in Channels |-> 0]
    /\ totalBusyTime = [ch \in Channels |-> 0]
    /\ txGoroutines = {}
    /\ inboundQueue = [a \in Agents |-> <<>>]
    /\ outboundQueue = [a \in Agents |-> <<>>]
    /\ ackWaiters = [a \in Aircraft |-> [id \in WindowIDs |-> None]]
    /\ stats = [a \in Agents |-> ZeroStats]
    /\ stepState = [a \in Agents |-> IdleStep]
    /\ flightPlan = WindowMessages
    /\ acknowledged = {}
    /\ retryCount = [id \in WindowIDs |-> 0]
    /\ exhausted = {}
    /\ sendState = [id \in WindowIDs |-> IdleSend]
    /\ ackWaiterChans = [id \in WindowIDs |-> NoChan]
    /\ listenState = [a \in Aircraft |-> NotBlocked]

NextWindow ==
    \/ \E m \in WindowMessages : Enqueue(m)
    \/ \E a \in Aircraft, action \in AgentAction : StepBegin(a, action)
    \/ \E a \in Aircraft : StepAct(a)
    \/ \E a \in Aircraft : StepAttempt(a)
    \/ \E a \in Aircraft : AircraftListen(a)
    \/ \E t \in txGoroutines : TxBroadcast(t)
    \/ \E t \in txGoroutines : TxRelease(t)
    \/ \E ch \in Channels : Dispatch(ch)

SpecWindow == InitWindow /\ [][NextWindow]_vars

\* ---------------------------------------------------------- GetObservation
\* GetObservation, first part: the length of the outbound queue is read under
\* the read lock, which is then released
ObserveLength(a) ==
    /\ a \in Agents
    /\ observation[a].pc = "idle"
    /\ observation' = [observation EXCEPT ![a] =
           [pc |-> "peek", OutboundQueueLength |-> Len(outboundQueue[a]),
            HasMessage |-> FALSE]]
    /\ UNCHANGED <<driven, BackupChannel, pValues, switchoverProbabilities, newProbs, update,
                   roundTrip, server, pendingReward, reward, chanVars, inboundQueue,
                   outboundQueue, ackWaiters, stats, stepState, flightPlan, autoVars,
                   histVars>>

\* GetObservation, second part: peekHighestPriorityMessage takes the read lock
\* again, HasMessage tells whether it has found a message, the call returns
ObservePeek(a) ==
    /\ a \in Agents
    /\ observation[a].pc = "peek"
    /\ observation' = [observation EXCEPT ![a].pc = "idle",
           ![a].HasMessage = peekHighestPriorityMessage(outboundQueue[a]) # None]
    /\ UNCHANGED <<driven, BackupChannel, pValues, switchoverProbabilities, newProbs, update,
                   roundTrip, server, pendingReward, reward, chanVars, inboundQueue,
                   outboundQueue, ackWaiters, stats, stepState, flightPlan, autoVars,
                   histVars>>

\* the aircraft of the send-window scenario, observed while it is stepped and
\* while its flight plan enqueues
NextObserve ==
    \/ NextWindow
    \/ \E a \in Agents : ObserveLength(a)
    \/ \E a \in Agents : ObservePeek(a)

SpecObserve == InitWindow /\ [][NextObserve]_vars

\* ------------------------------------------------------------ the API server
\* Server.Reset: the episode counter is advanced, every agent and both
\* channels are reset, the running flag is stored as true and the goroutine
\* of the flight-plan session is started; the response reports Done = false
ServerReset ==
    /\ server.episodeCounter < MaxEpisodes
    /\ \A a \in Agents : stepState[a].pc = "idle"
    /\ server' = [server EXCEPT !.episodeCounter = @ + 1,
                                !.simulationRunning = TRUE,
                                !.sessions = @ \cup {server.episodeCounter + 1},
                                !.lastCall = "Reset",
                                !.Done = FALSE]
    /\ stats' = [a \in Agents |-> ZeroStats]
    /\ outboundQueue' = [a \in Agents |-> <<>>]
    /\ ackWaiters' = [a \in Aircraft |-> [id \in MessageIDs |-> None]]
    /\ totalBusyTime' = [ch \in Channels |-> 0]
    /\ totalMessagesTransmitted' = [ch \in Channels |-> 0]
    /\ flightPlan' = FlightPlanMessages
    /\ UNCHANGED <<driven, BackupChannel, pValues, switchoverProbabilities, newProbs, update,
                   roundTrip, observation, pendingReward, reward, isBusy, messageQueue,
                   txGoroutines, inboundQueue, stepState, autoVars, histVars>>

\* the goroutine started by Reset for episode e: RunSimulationSession has
\* returned and the deferred calls run, the last of them
\* simulationRunning.Store(false)
SessionEnds(e) ==
    /\ e \in server.sessions
    /\ flightPlan = {}
    /\ server' = [server EXCEPT !.sessions = @ \ {e}, !.simulationRunning = FALSE]
    /\ UNCHANGED <<driven, BackupChannel, pValues, switchoverProbabilities, newProbs, update,
                   roundTrip, observation, pendingReward, reward, chanVars, inboundQueue,
                   outboundQueue, ackWaiters, stats, stepState, flightPlan, autoVars,
                   histVars>>

\* Server.Step with ActionWait for every agent: each Step takes the pending
\* reward and sweeps its timeouts (the ground station purges its expired
\* acknowledgments), nothing is sent; after wg.Wait() isDone is computed
\* from the running flag and the episode counter
ServerStep ==
    /\ \A a \in Agents : stepState[a].pc = "idle"
    /\ \A a \in Aircraft : TimedOutIDs(a) = {}
    /\ reward' = pendingReward
    /\ pendingReward' = [a \in Aircraft |-> 0]
    /\ outboundQueue' = [a \in Agents |->
           IF a \in GroundStations THEN PurgeExpired(outboundQueue[a]) ELSE outboundQueue[a]]
    /\ server' = [server EXCEPT !.lastCall = "Step",
                                !.Done = ~server.simulationRunning /\ server.episodeCounter > 0]
    /\ UNCHANGED <<driven, BackupChannel, pValues, switchoverProbabilities, newProbs, update,
                   roundTrip, observation, chanVars, inboundQueue, ackWaiters, stats,
                   stepState, flightPlan, autoVars, histVars>>

\* the server in front of agents that are told to wait: episodes are started
\* by Reset, their sessions enqueue the flight plan and end
InitEpisode ==
    /\ InitCommon
    /\ driven = Agents
    /\ BackupChannel = NoChannel
    /\ flightPlan = {}

NextEpisode ==
    \/ ServerReset
    \/ \E e \in 1..MaxEpisodes : SessionEnds(e)
    \/ ServerStep
    \/ \E m \in FlightPlanMessages : Enqueue(m)

SpecEpisode == InitEpisode /\ [][NextEpisode]_vars

\* ------------------------------------------------ numbered transmissions
\* the k-th message committed on channel ch: an acknowledgment of the ground
\* station for a message of an aircraft that is not listening here
BroadcastID(ch, k) == ch \o ToString(k)
BroadcastMessage(ch, k) == AckMessage("G", DataMessage(BroadcastID(ch, k), "A2", LowPriority))

\* the ground station's AttemptTransmit on channel ch with the next message
GroundTransmit(ch) ==
    /\ ch \in ActiveChannels
    /\ totalMessagesTransmitted[ch] < MaxBroadcasts
    /\ AttemptTransmit(ch, BroadcastMessage(ch, totalMessagesTransmitted[ch] + 1), "G")
    /\ UNCHANGED <<cfgVars, autoVars, inboundQueue, outboundQueue, ackWaiters, stats,
                   stepState, flightPlan, histVars>>

\* both agents listen, with or without a backup channel
InitBroadcast ==
    /\ InitCommon
    /\ driven = Agents
    /\ BackupChannel \in {"B", NoChannel}
    /\ flightPlan = {}

NextBroadcast ==
    \/ \E ch \in Channels : GroundTransmit(ch)
    \/ \E t \in txGoroutines : TxBroadcast(t)
    \/ \E t \in txGoroutines : TxRelease(t)
    \/ \E ch \in Channels : Dispatch(ch)
    \/ \E a \in Aircraft : AircraftListen(a)
    \/ \E g \in GroundStations : GccProcessMessage(g)

SpecBroadcast == InitBroadcast /\ [][NextBroadcast]_vars

\* the goroutine of a transmission runs to its end and the dispatch loop runs
ChannelFairness ==
    /\ WF_vars(\E t \in txGoroutines : TxBroadcast(t))
    /\ WF_vars(\E t \in txGoroutines : TxRelease(t))
    /\ WF_vars(\E ch \in Channels : Dispatch(ch))

SpecFair == Spec /\ ChannelFairness

SpecBroadcastFair == SpecBroadcast /\ ChannelFairness

\* fair scheduling of the stepped aircraft without a ground station: time
\* passes, the flight plan is handed over, a Step that has begun runs to its
\* end, the listening loop runs, and the driver asks for a transmission on the
\* primary channel again and again
SpecNoAckFair ==
    /\ SpecNoAck
    /\ ChannelFairness
    /\ WF_vars(Tick)
    /\ WF_vars(\E m \in FlightPlanMessages : Enqueue(m))
    /\ WF_vars(\E a \in Aircraft : StepRequeue(a))
    /\ WF_vars(\E a \in Aircraft : StepAct(a))
    /\ WF_vars(\E a \in Aircraft : StepAttempt(a))
    /\ WF_vars(\E a \in Aircraft : AircraftListen(a))
    /\ SF_vars(\E a \in Aircraft : StepBegin(a, ActionSendPrimary))

\* fair scheduling of the autonomous mode: every goroutine that can take a
\* step takes it, the timer of a waiting sender fires, the listening loop runs
SpecAutoFair ==
    /\ SpecAuto
    /\ ChannelFairness
    /\ WF_vars(\E m \in FlightPlanMessages : SendLoop(m))
    /\ WF_vars(\E m \in FlightPlanMessages : SendAttempt(m))
    /\ WF_vars(\E m \in FlightPlanMessages : SendAckReceived(m))
    /\ WF_vars(\E m \in FlightPlanMessages : SendAckTimeout(m))
    /\ WF_vars(\E a \in Aircraft : ListenAuto(a))

\* ------------------------------------------------------------------ claims
\* transmissions in progress on a channel: committed, busy flag not yet cleared
InProgress(ch) == {t \in txGoroutines : t.ch = ch}

\* an agent's AttemptTransmit call is pending on channel ch
Attempting(a, ch) == stepState[a].pc = "attempt" /\ stepState[a].channel = ch

\* the step is the return of agent a's AttemptTransmit call
AttemptReturns(a) == stepState[a].pc = "attempt" /\ stepState'[a].pc # "attempt"

\* C1: mutual exclusion on a Channel -- at most one transmission is in progress
\* on a channel at any time, and as long as one is in progress the busy flag
\* is set, so that every other AttemptTransmit call (which wins only when the
\* flag is clear) returns false until the winner's completion clears it.
C1_MutualExclusion ==
    \A ch \in Channels :
        /\ Cardinality(InProgress(ch)) <= 1
        /\ InProgress(ch) # {} => isBusy[ch] /\ ~AttemptTransmitWins(ch)

\* C1 witness: an agent's AttemptTransmit call is pending on a channel on which
\* another agent's transmission is in progress
C1_Witness ==
    \E a \in Agents, ch \in Channels :
        /\ Attempting(a, ch)
        /\ \E t \in InProgress(ch) : t.sender # a

\* C2: an AttemptTransmit call on an idle Channel returns true (a transmission
\* of the caller starts, no collision is counted) and IsBusy reports true at the
\* return; the flag is cleared by nothing but the completion of a transmission
\* on that channel; and a busy channel eventually becomes idle again.
C2_IdleAttemptBusyUntilCompletion ==
    /\ [][\A a \in Agents :
            (AttemptReturns(a) /\ ~isBusy[stepState[a].channel]) =>
                /\ isBusy'[stepState[a].channel]
                /\ \E t \in txGoroutines' \ txGoroutines :
                      t.ch = stepState[a].channel /\ t.sender = a
                /\ stats'[a].totalCollisions = stats[a].totalCollisions]_vars
    /\ [][\A ch \in Channels :
            (isBusy[ch] /\ ~isBusy'[ch]) =>
                \E t \in txGoroutines \ txGoroutines' : t.ch = ch /\ t.pc = "sent"]_vars
    /\ \A ch \in Channels : isBusy[ch] ~> ~isBusy[ch]

\* C2 witness: a channel is idle again after a transmission on it completed
C2_Witness ==
    \E ch \in Channels :
        /\ totalBusyTime[ch] > 0
        /\ totalMessagesTransmitted[ch] > 0
        /\ ~IsBusy(ch)

\* C3: an AttemptTransmit call on a busy Channel returns false (the caller
\* counts a collision, keeps its queue and its pending-ack table) and leaves
\* the busy flag, the broadcast queue, the transmitted counter, the cumulative
\* busy time and the set of transmissions in progress unchanged.
C3_BusyAttemptChangesNothing ==
    [][\A a \in Agents :
          (AttemptReturns(a) /\ isBusy[stepState[a].channel]) =>
              /\ UNCHANGED chanVars
              /\ stats'[a].totalCollisions = stats[a].totalCollisions + 1
              /\ UNCHANGED <<outboundQueue, ackWaiters>>]_vars

\* C3 witness: a call was refused on a busy channel (a collision was counted)
\* while the winner's transmission is still in progress
C3_Witness ==
    \E a \in Agents :
        /\ stats[a].totalCollisions >= 1
        /\ stepState[a].pc = "idle"
        /\ \E t \in txGoroutines : t.sender # a

\* the largest priority weight among the queued messages
MaxWeight(q) ==
    CHOOSE w \in {PriorityValue(q[i].Priority) : i \in 1..Len(q)} :
        \A i \in 1..Len(q) : PriorityValue(q[i].Priority) <= w

\* C11: priority ordering -- after any sequence of Enqueue calls and removals
\* PeekHighest returns none exactly when the queue is empty, otherwise a queued
\* message whose weight is the maximum among the queued messages; and the
\* read removes nothing.
C11_PeekHighest ==
    /\ [](\A a \in Aircraft :
            LET q == outboundQueue[a]
                m == peekHighestPriorityMessage(q)
            IN /\ (m = None) <=> (q = <<>>)
               /\ m # None =>
                     /\ \E i \in 1..Len(q) : q[i] = m
                     /\ PriorityValue(m.Priority) = MaxWeight(q))
    /\ [][\A a \in Aircraft :
            (stepState[a].pc = "idle" /\ stepState'[a].pc = "peeked") =>
                /\ outboundQueue' = outboundQueue
                /\ stepState'[a].msg = peekHighestPriorityMessage(outboundQueue[a])]_vars

\* C11 witness: after an arrival sorted by the partitioning sort and a removal,
\* a read has returned the head of a queue that holds several weights
C11_Witness ==
    \E a \in Aircraft :
        /\ stepState[a].pc = "peeked"
        /\ stepState[a].msg # None
        /\ Len(outboundQueue[a]) = maxInsertion + 1
        /\ \E i \in 1..Len(outboundQueue[a]) :
              PriorityValue(outboundQueue[a][i].Priority) < PriorityValue(stepState[a].msg.Priority)
        /\ \E i \in 1..maxInsertion : \A j \in 1..Len(outboundQueue[a]) :
              outboundQueue[a][j].MessageID # QueueID(i)

\* C12: stable FIFO within a priority -- messages of equal priority weight
\* stand in the outbound queue in their order of arrival.
C12_StableFIFO ==
    \A a \in Aircraft :
        \A i, j \in 1..Len(outboundQueue[a]) :
            (/\ i < j
             /\ PriorityValue(outboundQueue[a][i].Priority)
                   = PriorityValue(outboundQueue[a][j].Priority))
                => Arrival(outboundQueue[a][i]) < Arrival(outboundQueue[a][j])

\* the step is SendMessage's call of SelectChannelForMessage for message m
Selects(m) ==
    /\ sendState[m.MessageID].pc = "loop"
    /\ sendState'[m.MessageID].pc = "csma"

\* a message of any priority, one without a table entry anywhere included
AnyMessage == {DataMessage("any", "A1", prio) : prio \in Priorities \cup {"NONE"}}

\* the switchover table holds probability p (in percent) for the priority
TableGives(priority, p) ==
    /\ priority \in DOMAIN switchoverProbabilities
    /\ switchoverProbabilities[priority] = p

\* C13: switchover determinism -- with the primary busy and the backup idle,
\* SelectChannelForMessage returns the backup for a priority whose switchover
\* probability is 1.0 and the primary for one whose probability is 0.0 or
\* that has no entry in the table.
C13_SwitchoverDeterminism ==
    /\ [](\A msg \in AnyMessage :
            (BackupChannel # NoChannel /\ IsBusy("P") /\ ~IsBusy(BackupChannel)) =>
                /\ TableGives(msg.Priority, 100)
                      => SelectChannelForMessage(msg) = {BackupChannel}
                /\ (msg.Priority \notin DOMAIN switchoverProbabilities
                      \/ TableGives(msg.Priority, 0))
                      => SelectChannelForMessage(msg) = {"P"})
    /\ [][\A m \in FlightPlanMessages :
            (/\ Selects(m)
             /\ BackupChannel # NoChannel /\ IsBusy("P") /\ ~IsBusy(BackupChannel)) =>
                /\ TableGives(m.Priority, 100)
                      => sendState'[m.MessageID].targetChannel = BackupChannel
                /\ (m.Priority \notin DOMAIN switchoverProbabilities
                      \/ TableGives(m.Priority, 0))
                      => sendState'[m.MessageID].targetChannel = "P"]_vars

\* C13 witness: the backup was selected under probability 1.0 while the
\* primary carries a transmission and the backup is idle
C13_Witness ==
    \E m \in FlightPlanMessages :
        /\ sendState[m.MessageID].pc = "csma"
        /\ sendState[m.MessageID].targetChannel = "B"
        /\ BackupChannel = "B" /\ IsBusy("P") /\ ~IsBusy("B")
        /\ TableGives(m.Priority, 100)

\* C14: SelectChannelForMessage returns the primary whenever there is no
\* backup or the primary is idle, whatever the priority, the switchover table
\* and, without a backup, the primary's busy state.
C14_PrimaryByDefault ==
    /\ [](\A msg \in AnyMessage :
            (BackupChannel = NoChannel \/ ~IsBusy("P")) =>
                SelectChannelForMessage(msg) = {"P"})
    /\ [][\A m \in FlightPlanMessages :
            (Selects(m) /\ (BackupChannel = NoChannel \/ ~IsBusy("P"))) =>
                sendState'[m.MessageID].targetChannel = "P"]_vars

\* C14 witness: the primary was selected without a backup while the primary
\* carries a transmission and the table gives the priority probability 1.0
C14_Witness ==
    \E m \in FlightPlanMessages :
        /\ sendState[m.MessageID].pc = "csma"
        /\ sendState[m.MessageID].targetChannel = "P"
        /\ BackupChannel = NoChannel /\ IsBusy("P")
        /\ TableGives(m.Priority, 100)

\* C15: two agents call AttemptTransmit at the same time on one idle Channel --
\* the call that runs first returns true and starts its caller's transmission
\* while the other call is still pending; the other call, run while that
\* transmission is in progress, returns false: its caller counts exactly one
\* collision, its message stays in its outbound queue and does not enter its
\* pending-ack table, and no second transmission starts.
C15_SimultaneousAttempts ==
    [][\A a, b \in Agents : \A ch \in Channels :
          /\ (/\ a # b /\ Attempting(a, ch) /\ Attempting(b, ch) /\ ~isBusy[ch]
               /\ AttemptReturns(a)) =>
                 /\ isBusy'[ch]
                 /\ InProgress(ch)' = {[ch |-> ch, msg |-> t.msg, sender |-> a, pc |-> "sleep"] :
                                          t \in InProgress(ch)' }
                 /\ Cardinality(InProgress(ch)') = 1
                 /\ stats'[a].totalCollisions = stats[a].totalCollisions
                 /\ stepState'[b] = stepState[b]
          /\ (/\ Attempting(b, ch) /\ AttemptReturns(b)
               /\ \E t \in InProgress(ch) : t.sender # b) =>
                 /\ stats'[b].totalCollisions = stats[b].totalCollisions + 1
                 /\ outboundQueue'[b] = outboundQueue[b]
                 /\ InQueue(outboundQueue[b], stepState[b].msg.MessageID)
                 /\ b \in Aircraft =>
                       /\ ackWaiters'[b] = ackWaiters[b]
                       /\ ackWaiters[b][stepState[b].msg.MessageID] = None
                 /\ txGoroutines' = txGoroutines]_vars

\* C15 witness: of two calls pending together on an idle channel one has won,
\* its transmission is in progress, and the other has returned with one
\* collision counted and its message still queued
C15_Witness ==
    \E a, b \in Agents : \E t \in txGoroutines :
        /\ a # b
        /\ t.sender = a /\ t.pc = "sleep"
        /\ stepState[a].pc = "idle" /\ stepState[b].pc = "idle"
        /\ stats[b].totalCollisions = 1
        /\ stats[b].totalFailRqTunnel = 0
        /\ outboundQueue[b] # <<>>

\* the step is the listening loop of a taking the head of its inbound queue
Listens(a) ==
    /\ inboundQueue[a] # <<>>
    /\ inboundQueue'[a] = Tail(inboundQueue[a])

\* an acknowledgment whose payload is malformed or names an id without a
\* pending entry at a
Unmatched(a, msg) ==
    /\ msg.Type = MsgTypeAck
    /\ msg.Orig = MalformedData \/ msg.Orig \notin PendingIDs(a)

\* C16: an inbound acknowledgment that is malformed or whose referenced id has
\* no pending entry is a no-op -- the receiving aircraft's outbound queue,
\* pending-ack table and counters are unchanged, no message becomes
\* acknowledged, and the listening loop has moved on to the next message.
C16_UnmatchedAckIgnored ==
    [][\A a \in Aircraft :
          (Listens(a) /\ Unmatched(a, Head(inboundQueue[a]))) =>
              /\ outboundQueue'[a] = outboundQueue[a]
              /\ ackWaiters'[a] = ackWaiters[a]
              /\ stats'[a] = stats[a]
              /\ acknowledged' = acknowledged]_vars

\* C16 witness: the aircraft has taken the malformed acknowledgment and the
\* ground station's acknowledgment of it from its inbound queue (nothing else
\* was broadcast and nothing was dropped) and all its counters are still zero
C16_Witness ==
    /\ inboundQueue["G"] = <<AckMessage("G", MalformedAck)>>
    /\ inboundQueue["A1"] = <<>>
    /\ messageQueue["P"] = <<>>
    /\ txGoroutines = {}
    /\ totalMessagesTransmitted["P"] = 1
    /\ stats["A1"] = ZeroStats

\* the step is the return of agent a's Reset
ResetReturns(a) == stepState[a].pc = "reset" /\ stepState'[a].pc = "idle"

\* C17: Reset leaves an agent with an empty outbound queue, an empty
\* pending-ack table and every statistics counter at zero, whatever its state
\* before; an acknowledgment that arrives for a message without an entry (one
\* sent before the Reset) is then ignored.
C17_ResetClears ==
    [][\A a \in Agents :
          /\ ResetReturns(a) =>
                /\ outboundQueue'[a] = <<>>
                /\ a \in Aircraft => PendingIDs(a)' = {}
                /\ stats'[a] = ZeroStats
          /\ (a \in Aircraft /\ Listens(a) /\ Unmatched(a, Head(inboundQueue[a]))) =>
                /\ outboundQueue'[a] = outboundQueue[a]
                /\ ackWaiters'[a] = ackWaiters[a]
                /\ stats'[a] = stats[a]]_vars

\* the step is the dispatch of the message at the head of channel ch's
\* broadcast queue
Dispatches(ch) ==
    /\ messageQueue[ch] # <<>>
    /\ messageQueue'[ch] = Tail(messageQueue[ch])

\* C18: when the dispatch loop broadcasts a message, a listener whose queue is
\* full does not get it and keeps its queue, every other registered listener
\* gets it at the end of its queue, and the dispatcher is never blocked: a
\* message in the broadcast queue can always be dispatched.
C18_BestEffortBroadcast ==
    /\ [](\A ch \in ActiveChannels : messageQueue[ch] # <<>> => ENABLED Dispatch(ch))
    /\ [][\A ch \in Channels : Dispatches(ch) =>
             \A a \in RegisterListener(ch) :
                 IF Len(inboundQueue[a]) = InboundCap
                 THEN inboundQueue'[a] = inboundQueue[a]
                 ELSE inboundQueue'[a] = Append(inboundQueue[a], Head(messageQueue[ch]))]_vars

\* the last message found the ground station's queue full and reached the
\* aircraft alone
C18_Witness ==
    /\ inboundQueue["G"] = [k \in 1..InboundCap |-> BroadcastMessage("P", k)]
    /\ inboundQueue["A1"] = <<BroadcastMessage("P", InboundCap + 1)>>
    /\ totalMessagesTransmitted["B"] = 0

\* the messages committed on channel ch, and the place of a message in the
\* order of the commits on its channel
BroadcastsOf(ch) == {BroadcastMessage(ch, k) : k \in 1..MaxBroadcasts}
Number(m) == CHOOSE k \in 1..MaxBroadcasts : \E ch \in Channels : m = BroadcastMessage(ch, k)
FromChannel(q, ch) == SelectSeq(q, LAMBDA m : m \in BroadcastsOf(ch))

\* the transmission in progress on channel ch that has not reached the
\* broadcast queue yet
Sleeping(ch) ==
    IF \E t \in txGoroutines : t.ch = ch /\ t.pc = "sleep"
    THEN <<(CHOOSE t \in txGoroutines : t.ch = ch /\ t.pc = "sleep").msg>>
    ELSE <<>>

\* what listener a holds of channel ch and what is on its way to a
Pending(a, ch) == FromChannel(inboundQueue[a], ch) \o messageQueue[ch] \o Sleeping(ch)

InCommitOrder(q) == \A i, j \in 1..Len(q) : i < j => Number(q[i]) < Number(q[j])

\* the step takes the message at the head of listener a's queue
Receives(a) ==
    /\ inboundQueue[a] # <<>>
    /\ inboundQueue'[a] = Tail(inboundQueue[a])

\* C19: for one channel and one listener, the messages the listener receives
\* arrive in the order in which their transmissions committed on the channel:
\* what the listener holds of the channel and what is on its way to it is in
\* commit order, and everything that follows a received message was committed
\* after it. A dropped message is missing from the order, never out of place.
C19_ListenerFIFO ==
    /\ [](\A a \in driven, ch \in Channels : InCommitOrder(Pending(a, ch)))
    /\ [][\A a \in driven, ch \in Channels :
             (Receives(a) /\ Head(inboundQueue[a]) \in BroadcastsOf(ch)) =>
                 \A i \in 1..Len(Pending(a, ch)') :
                     Number(Pending(a, ch)'[i]) > Number(Head(inboundQueue[a]))]_vars

\* a listener holds two messages of the primary channel between which one
\* was dropped
C19_Witness ==
    \E a \in driven :
        LET q == FromChannel(inboundQueue[a], "P") IN
          \E i \in 1..Len(q) - 1 : Number(q[i + 1]) > Number(q[i]) + 1

\* the number of copies of message m in queue q
Copies(q, m) == Len(SelectSeq(q, LAMBDA x : x = m))

\* C20: a listener registered through CommunicationSystem.RegisterListener
\* receives every message transmitted on the primary channel and on the backup
\* channel, when there is one, each exactly once, as long as its queue has
\* space: the dispatch of a message on either channel adds one copy of it, and
\* nothing else, to the queue of every listener with space; no other step puts
\* anything into a listener's queue; and every message that reached a broadcast
\* queue is dispatched.
C20_EveryMessageOnce ==
    /\ [][\A ch \in ActiveChannels : Dispatches(ch) =>
             \A a \in driven : Len(inboundQueue[a]) < InboundCap =>
                 /\ Copies(inboundQueue'[a], Head(messageQueue[ch]))
                       = Copies(inboundQueue[a], Head(messageQueue[ch])) + 1
                 /\ Len(inboundQueue'[a]) = Len(inboundQueue[a]) + 1]_vars
    /\ [][(\A ch \in Channels : ~Dispatches(ch)) =>
             \A a \in driven : \/ inboundQueue'[a] = inboundQueue[a]
                                \/ Receives(a)]_vars
    /\ \A ch \in Channels : (messageQueue[ch] # <<>>) ~> (messageQueue[ch] = <<>>)

\* the aircraft holds one copy of the first message of the primary channel and
\* one copy of the first message of the backup channel
C20_Witness ==
    /\ BackupChannel = "B"
    /\ inboundQueue["A1"] = <<BroadcastMessage("P", 1), BroadcastMessage("B", 1)>>
    /\ messageQueue = [ch \in Channels |-> <<>>]

\* the step holds an IsBusy check of agent a: attemptSendOnChannel was entered
ChecksBusy(a) == stats'[a].totalRqTunnel # stats[a].totalRqTunnel

\* the step holds an AttemptTransmit call of agent a: a transmission of a
\* starts or a counts a collision
CallsAttemptTransmit(a) ==
    \/ \E t \in txGoroutines' \ txGoroutines : t.sender = a /\ t.pc = "sleep"
    \/ stats'[a].totalCollisions # stats[a].totalCollisions

\* the step applies an action that asks for no transmission: Wait, a send
\* action on an empty queue, SendBackup without a backup channel
AppliesIdleAction(a) ==
    IF a \in Aircraft
    THEN /\ StepAct(a)
         /\ \/ stepState[a].action = ActionWait
            \/ outboundQueue[a] = <<>>
            \/ stepState[a].action = ActionSendBackup /\ BackupChannel = NoChannel
    ELSE \/ GccStep(a, ActionWait)
         \/ PurgeExpired(outboundQueue[a]) = <<>> /\ \E action \in SendActions : GccStep(a, action)
         \/ BackupChannel = NoChannel /\ GccStep(a, ActionSendBackup)

UpdateReturns == update.pc = "copy" /\ update'.pc = "idle"

\* C22: UpdateSwitchoverProbabilities and the constructor store a copy of the
\* supplied table: at the return the system's table equals the supplied one,
\* a change the caller makes to its own table afterwards leaves the system's
\* table as it is, and a SelectChannelForMessage call that reads the table does
\* so while no update is under way, that is, it reads the old or the new table
\* whole.
C22_TableCopied ==
    [][/\ UpdateReturns => switchoverProbabilities' = newProbs
       /\ newProbs' # newProbs => switchoverProbabilities' = switchoverProbabilities
       /\ \A m \in FlightPlanMessages :
             (Selects(m) /\ BackupChannel # NoChannel /\ IsBusy("P")) =>
                 /\ update.pc = "idle"
                 /\ sendState'[m.MessageID].targetChannel = "B" => SwitchoverP(m.Priority) > 0
                 /\ sendState'[m.MessageID].targetChannel = "P" => SwitchoverP(m.Priority) < 100]_vars

\* after an update the caller has changed its table; the aircraft has selected
\* the backup channel by the system's table, which the caller's table would
\* not allow
C22_Witness ==
    \E m \in FlightPlanMessages :
        /\ update = IdleUpdate
        /\ TableGives(m.Priority, 100)
        /\ m.Priority \in DOMAIN newProbs /\ newProbs[m.Priority] = 0
        /\ sendState[m.MessageID].pc = "csma"
        /\ sendState[m.MessageID].targetChannel = "B"

\* the step is a polling round of message m on an idle channel, up to the draw
Draws(m) ==
    /\ sendState[m.MessageID].pc = "csma"
    /\ ~IsBusy(sendState[m.MessageID].targetChannel)
    /\ stats'[m.Sender].totalRqTunnel = stats[m.Sender].totalRqTunnel + 1

\* C23: GetPForMessage returns the probability that the most recent
\* UpdatePValues of the channel (or the constructor) configured for the
\* priority, and 0.1 (10 percent) for a priority without an entry: an update
\* sets the value for every priority, nothing else changes it, and SendMessage
\* draws with the value it got from GetPForMessage.
C23_ConfiguredProbability ==
    [][/\ \A ch \in Channels, newPMap \in CallerTables :
             UpdatePValues(ch, newPMap) =>
                 \A prio \in Priorities \cup {"NONE"} :
                     GetPForMessage(ch, prio)' =
                         IF prio \in DOMAIN newPMap THEN newPMap[prio] ELSE 10
       /\ (\A ch \in Channels, newPMap \in CallerTables : ~UpdatePValues(ch, newPMap)) =>
             \A ch \in Channels, prio \in Priorities \cup {"NONE"} :
                 GetPForMessage(ch, prio)' = GetPForMessage(ch, prio)
       /\ \A m \in FlightPlanMessages : Selects(m) =>
             LET table == pValues[sendState'[m.MessageID].targetChannel]
             IN sendState'[m.MessageID].p =
                    IF m.Priority \in DOMAIN table THEN table[m.Priority] ELSE 10
       /\ \A m \in FlightPlanMessages : Draws(m) =>
             /\ sendState'[m.MessageID].pc = "attempt" => sendState[m.MessageID].p > 0
             /\ sendState'[m.MessageID].pc = "csma" => sendState[m.MessageID].p < 100]_vars

\* the table of the channel was replaced by one without an entry for the
\* message's priority, and the message won the draw
C23_Witness ==
    \E m \in FlightPlanMessages :
        /\ sendState[m.MessageID].pc = "attempt"
        /\ m.Priority \notin DOMAIN pValues[sendState[m.MessageID].targetChannel]
        /\ LowPriority \in DOMAIN pValues[sendState[m.MessageID].targetChannel]
        /\ sendState[m.MessageID].p = 10

\* C24: for any message built by NewCriticalHighPriorityMessage, marshalling it
\* to JSON and unmarshalling the text succeeds and yields a message with the
\* aircraft address and the message type of the original, whose data decodes
\* to the fault code and the severity of the original data.
C24_RoundTrip ==
    roundTrip.pc = "decoded" =>
        /\ roundTrip.ok
        /\ roundTrip.received.AircraftICAOAddress = roundTrip.base.AircraftICAOAddress
        /\ roundTrip.received.Type = roundTrip.base.Type
        /\ roundTrip.receivedData.FaultCode = roundTrip.data.FaultCode
        /\ roundTrip.receivedData.Severity = roundTrip.data.Severity

\* a message whose address and fault code hold characters that are written
\* escaped has made the round trip
C24_Witness ==
    /\ roundTrip.pc = "decoded"
    /\ roundTrip.base.AircraftICAOAddress = <<"\"", "<">>
    /\ roundTrip.data.FaultCode = <<"\\", "}">>
    /\ roundTrip.data.Severity = <<",">>
    /\ Len(roundTrip.json) > Len(roundTrip.msg.Data) + 8

\* Step has collected the timed-out entries and not yet applied the action
Sweeping(a) == stepState[a].pc = "requeue"

\* C25: stepped timeout -- a Step of an aircraft first sweeps the pending-ack
\* table once: it collects exactly the entries older than the ack timeout; each
\* of them is removed from the table, its message is enqueued again and the
\* retry counter grows by one for it (and only then); the action is applied
\* when the whole sweep is done, to the head of the queue the sweep has left.
C25_SweepBeforeAction ==
    [][\A a \in Aircraft :
          /\ (stepState[a].pc = "idle" /\ Sweeping(a)') =>
                /\ {stepState'[a].idsToDelete[i].id : i \in DOMAIN stepState'[a].idsToDelete}
                      = {id \in DOMAIN ackWaiters[a] :
                            /\ ackWaiters[a][id] # None
                            /\ ackWaiters[a][id].sendTime > AckTimeout}
                /\ \A i, j \in DOMAIN stepState'[a].idsToDelete :
                      stepState'[a].idsToDelete[i].id = stepState'[a].idsToDelete[j].id
                          => i = j
                /\ stepState'[a].requeued = {}
          /\ (Sweeping(a) /\ Sweeping(a)' /\ stepState'[a] # stepState[a]) =>
                \E id \in MessageIDs :
                    /\ stepState[a].idsToDelete # <<>>
                    /\ id = Head(stepState[a].idsToDelete).id
                    /\ stepState'[a].requeued = stepState[a].requeued \cup {id}
                    /\ stepState'[a].idsToDelete = Tail(stepState[a].idsToDelete)
                    /\ ackWaiters'[a][id] = None
                    /\ InQueue(outboundQueue'[a], id)
                    /\ stats'[a].totalRetries = stats[a].totalRetries + 1
          /\ stats'[a].totalRetries # stats[a].totalRetries =>
                /\ Sweeping(a)
                /\ stepState'[a].requeued # stepState[a].requeued
          /\ (Sweeping(a) /\ ~Sweeping(a)') =>
                /\ stepState[a].idsToDelete = <<>>
                /\ stepState'[a].pc = "attempt" =>
                      stepState'[a].msg = peekHighestPriorityMessage(outboundQueue[a])
          /\ (ChecksBusy(a) \/ CallsAttemptTransmit(a)) => ~Sweeping(a)']_vars

\* the message a Step is transmitting is one its own sweep has requeued
C25_Witness ==
    \E a \in Aircraft :
        /\ stepState[a].pc = "attempt"
        /\ stepState[a].msg # None
        /\ stepState[a].msg.MessageID \in stepState[a].requeued

\* GetRawStats: the counters of the aircraft and the length of its queue
GetRawStats(a) ==
    [SuccessfulTx |-> stats[a].successfulTx,
     TotalTxAttempts |-> stats[a].totalTxAttempts,
     TotalCollisions |-> stats[a].totalCollisions,
     TotalRetries |-> stats[a].totalRetries,
     TotalRqTunnel |-> stats[a].totalRqTunnel,
     TotalFailRqTunnel |-> stats[a].totalFailRqTunnel,
     UnsentMessages |-> Len(outboundQueue[a])]

\* SendMessage gives the message up in this step
GivesUp(m) == m.MessageID \in exhausted' \ exhausted

\* C26: retry exhaustion is recorded -- the step in which SendMessage gives a
\* message up for having reached the maximum of retries adds exactly one to a
\* counter of the sender's statistics, and the message is sent no more.
C26_ExhaustionRecorded ==
    [][\A m \in FlightPlanMessages :
          /\ GivesUp(m) =>
                \E counter \in DOMAIN GetRawStats(m.Sender) :
                    GetRawStats(m.Sender)'[counter] = GetRawStats(m.Sender)[counter] + 1
          /\ m.MessageID \in exhausted =>
                /\ sendState'[m.MessageID] = sendState[m.MessageID]
                /\ \A t \in txGoroutines' \ txGoroutines :
                      t.pc = "sleep" => t.msg.MessageID # m.MessageID]_vars

\* the step is a polling round of SendMessage for the message: the request
\* for the channel is counted
PollingRound(m) ==
    /\ sendState[m.MessageID].pc = "csma"
    /\ stats'[m.Sender].totalRqTunnel = stats[m.Sender].totalRqTunnel + 1

\* C27: in the autonomous mode every polling round starts by asking the
\* CommunicationSystem for the target channel: the channel a round polls is
\* one SelectChannelForMessage returns at the start of that round, and the
\* round draws with the access probability that channel has then.
C27_SelectEveryRound ==
    [][\A m \in FlightPlanMessages :
          PollingRound(m) =>
              /\ sendState[m.MessageID].targetChannel \in SelectChannelForMessage(m)
              /\ sendState[m.MessageID].p =
                    GetPForMessage(sendState[m.MessageID].targetChannel, m.Priority)]_vars

\* C28: SelectChannelForMessage diverts a message to the backup channel only
\* when at the time of the selection the primary channel is busy and the
\* backup channel is idle: it never returns a busy backup.
C28_NeverBusyBackup ==
    [][\A m \in FlightPlanMessages :
          (Selects(m) /\ sendState'[m.MessageID].targetChannel = "B") =>
              (IsBusy("P") /\ ~IsBusy("B"))]_vars

\* the acknowledgments in the outbound queue of ground station g
QueuedAcks(g) ==
    {outboundQueue[g][i] : i \in {j \in DOMAIN outboundQueue[g] :
                                     outboundQueue[g][j].Type = MsgTypeAck}}

\* C29: the acknowledgment a ground station enqueues in reply to a data
\* message has the priority of that message (the priority its channel-access
\* and switchover probabilities are looked up with).
C29_AckPriority ==
    \A g \in GroundStations : \A ack \in QueuedAcks(g) :
        \A m \in FlightPlanMessages :
            ack.Orig = m.MessageID => ack.Priority = m.Priority

\* the weight of the priority of the message an acknowledgment answers
OriginalWeight(ack) == PriorityValue(ack.OriginMessagePriority)

\* C30: after any sequence of acknowledgment enqueues at a ground station the
\* head of its outbound queue is an acknowledgment whose original message has
\* the highest priority among the queued acknowledgments.
C30_MostUrgentAckFirst ==
    \A g \in GroundStations :
        outboundQueue[g] # <<>> =>
            \A ack \in QueuedAcks(g) :
                OriginalWeight(peekHighestPriorityMessage(outboundQueue[g]))
                    >= OriginalWeight(ack)

\* the transmissions of a channel whose message awaits its hand-off to the
\* broadcast queue
AwaitingHandOff(ch) == {t \in txGoroutines : t.ch = ch /\ t.pc = "sleep"}

\* the AttemptTransmit calls of agent a that returned true, by a's counters:
\* an aircraft counts an attempt before the call and a collision after a
\* refusal, a ground station counts the calls that returned true
ReturnedTrue(a) ==
    IF a \in Aircraft
    THEN stats[a].totalTxAttempts - stats[a].totalCollisions
    ELSE stats[a].successfulTx

\* C31: completion ordering in AttemptTransmit -- the message is handed to the
\* broadcast queue and the transmitted counter incremented before the busy flag
\* is cleared: an idle channel has no transmission left to hand off or count,
\* at most one message per channel awaits its hand-off, the counter of a
\* channel grows by one exactly with a hand-off on that channel, and when all
\* channels are idle and no call is pending the counters add up to the number
\* of AttemptTransmit calls that returned true.
C31_CountedBeforeRelease ==
    /\ [](\A ch \in Channels :
            /\ ~IsBusy(ch) => InProgress(ch) = {}
            /\ Cardinality(AwaitingHandOff(ch)) <= 1)
    /\ []((/\ \A ch \in Channels : ~IsBusy(ch)
           /\ \A a \in Agents : stepState[a].pc # "attempt") =>
            totalMessagesTransmitted["P"] + totalMessagesTransmitted["B"]
                = ReturnedTrue("A1") + ReturnedTrue("G"))
    /\ [][\A ch \in Channels :
            /\ totalMessagesTransmitted'[ch] # totalMessagesTransmitted[ch] =>
                  /\ totalMessagesTransmitted'[ch] = totalMessagesTransmitted[ch] + 1
                  /\ IsBusy(ch) /\ IsBusy(ch)'
                  /\ AwaitingHandOff(ch) # {} /\ AwaitingHandOff(ch)' = {}
                  /\ Len(messageQueue'[ch]) = Len(messageQueue[ch]) + 1
            /\ (IsBusy(ch) /\ ~IsBusy(ch)') => AwaitingHandOff(ch) = {}]_vars

\* both channels are idle after two transmissions on the primary and one on
\* the backup channel were handed off and counted
C31_Witness ==
    /\ \A ch \in Channels : ~IsBusy(ch)
    /\ \A a \in Agents : stepState[a].pc # "attempt"
    /\ totalMessagesTransmitted["P"] >= 2
    /\ totalMessagesTransmitted["B"] >= 1
    /\ ReturnedTrue("A1") >= 1 /\ ReturnedTrue("G") >= 1

\* the session started by the latest Reset has not returned
LatestSessionRunning == server.episodeCounter \in server.sessions

\* C32: after Reset has stored the running flag, every Step reports
\* Done = false for as long as the flight-plan session started by that Reset
\* is running, also when the session of an earlier episode ends meanwhile.
C32_DoneOnlyAfterSession ==
    (server.lastCall = "Step" /\ LatestSessionRunning) => ~server.Done

\* the listening loop of aircraft a stands in `waiterChan <- true`
BlockedInSignal(a) == listenState[a].pc = "blocked"

\* C33: in the autonomous mode the listening loop is never blocked for good in
\* the signal to a waiting sender: whenever it stands in the send on a
\* waiter's channel, it later returns to receive the next inbound message.
C33_ListenerReturns ==
    \A a \in Aircraft : BlockedInSignal(a) ~> (listenState[a].pc = "recv")

\* the step puts a new acknowledgment in ground station g's outbound queue
GeneratesAck(g) ==
    \E i \in 1..Len(outboundQueue'[g]) :
        \A k \in 1..Len(outboundQueue[g]) :
            outboundQueue[g][k].MessageID # outboundQueue'[g][i].MessageID

\* C34: a ground station generates an acknowledgment only in response to a
\* data message: the message it has taken from its inbound queue is not of
\* the acknowledgment type, whoever has sent it.
C34_AckOnlyForData ==
    [][\A g \in GroundStations :
          GeneratesAck(g) => /\ inboundQueue[g] # <<>>
                             /\ Head(inboundQueue[g]).Type # MsgTypeAck]_vars

\* the step is the window test of aircraft a's Step (the Range that counts the
\* pending entries, the peek and the switch on the action)
WindowTest(a) ==
    /\ stepState[a].pc = "requeue"
    /\ stepState[a].idsToDelete = <<>>
    /\ stepState'[a] # stepState[a]

\* C35: under sequential Step calls the pending-ack table of an aircraft
\* never holds more than MAX_PENDING_ACKS entries, and a send action that
\* finds the table full accesses no channel (no busy test is counted, no
\* transmission is attempted) and leaves queue and table unchanged.
C35_SendWindow ==
    /\ [](\A a \in Aircraft : Cardinality(PendingIDs(a)) <= MAX_PENDING_ACKS)
    /\ [][\A a \in Aircraft :
            (/\ WindowTest(a)
             /\ stepState[a].action \in SendActions
             /\ Cardinality(PendingIDs(a)) = MAX_PENDING_ACKS) =>
                /\ stepState'[a] = IdleStep
                /\ UNCHANGED <<stats, outboundQueue, ackWaiters, chanVars>>]_vars

\* the window test has found three pending entries and a message to send
C35_Witness ==
    /\ Cardinality(PendingIDs("A1")) = MAX_PENDING_ACKS
    /\ outboundQueue["A1"] # <<>>
    /\ stepState["A1"].pc = "requeue"
    /\ stepState["A1"].idsToDelete = <<>>
    /\ stepState["A1"].action = ActionSendPrimary
    /\ ~IsBusy("P")

\* the transmissions of agent a that the step commits: the goroutines that
\* AttemptTransmit starts for it
NewTransmissions(a) ==
    {t \in txGoroutines' : t.sender = a /\ t.pc = "sleep" /\ t \notin txGoroutines}

\* the attempts of agent a that are counted, are not collisions and whose
\* AttemptTransmit call has returned
Landed(a) ==
    stats[a].totalTxAttempts - stats[a].totalCollisions
        - (IF stepState[a].pc = "attempt" THEN 1 ELSE 0)

\* C36: counter consistency in the stepped mode, without a Reset: whenever an
\* agent's Step calls are completed its channel requests are the failed
\* requests plus the attempts and its collisions are at most its attempts,
\* and attempts minus collisions grows by one with each transmission of the
\* agent that commits and with nothing else, starting from zero.
C36_CounterConsistency ==
    /\ [](\A a \in Agents :
            stepState[a].pc = "idle" =>
                /\ stats[a].totalRqTunnel =
                       stats[a].totalFailRqTunnel + stats[a].totalTxAttempts
                /\ stats[a].totalCollisions <= stats[a].totalTxAttempts
                /\ Landed(a) = stats[a].totalTxAttempts - stats[a].totalCollisions)
    /\ [][\A a \in Agents :
            /\ Cardinality(NewTransmissions(a)) <= 1
            /\ Landed(a)' = Landed(a) + Cardinality(NewTransmissions(a))]_vars

\* both agents have completed their Steps after a failed request, a collision
\* and a committed transmission of the aircraft and a commit of the station
C36_Witness ==
    /\ \A a \in Agents : stepState[a].pc = "idle"
    /\ stats["A1"].totalFailRqTunnel >= 1
    /\ stats["A1"].totalCollisions >= 1
    /\ stats["A1"].totalTxAttempts - stats["A1"].totalCollisions >= 1
    /\ stats["G"].totalTxAttempts - stats["G"].totalCollisions >= 1

\* C37: every observation GetObservation returns is consistent in itself:
\* HasMessage is true exactly when OutboundQueueLength is above zero, also
\* when Enqueue or Step run while the observation is taken.
C37_ObservationConsistent ==
    \A a \in Agents :
        observation[a].pc = "idle" =>
            (observation[a].HasMessage <=> observation[a].OutboundQueueLength > 0)

\* time.Since(Timestamp) > AckTimeout does not hold for the queued message
Fresh(m) == m.Timestamp <= AckTimeout

\* the step is the part of ground station g's Step up to its decision: it
\* removes acks, or counts a channel request, or goes on to AttemptTransmit
GccStepTaken(g) ==
    /\ stepState[g].pc = "idle"
    /\ \/ Len(outboundQueue'[g]) < Len(outboundQueue[g])
       \/ stats'[g].totalRqTunnel # stats[g].totalRqTunnel
       \/ stepState'[g].pc = "attempt"

\* C38: a ground station's Step never transmits an expired acknowledgment:
\* Step first removes every queued ack older than the ack timeout and keeps
\* the others in their order, the message it goes on to transmit is the head
\* of the queue that is left, and what AttemptTransmit commits for the
\* station is that message.
C38_NoExpiredAck ==
    [][\A g \in GroundStations :
          /\ GccStepTaken(g) =>
                outboundQueue'[g] = SelectSeq(outboundQueue[g], Fresh)
          /\ (stepState[g].pc = "idle" /\ stepState'[g].pc = "attempt") =>
                /\ stepState'[g].msg = Head(outboundQueue'[g])
                /\ Fresh(stepState'[g].msg)
          /\ \A t \in NewTransmissions(g) :
                /\ t.msg.MessageID = stepState[g].msg.MessageID
                /\ Fresh(stepState[g].msg)]_vars

\* the station transmits the ack of the second message; the ack of the first
\* message was enqueued, was never transmitted and is gone from the queue
C38_Witness ==
    /\ stepState["G"].pc = "attempt"
    /\ stepState["G"].msg.Orig = QueueID(2)
    /\ \A m \in flightPlan : m.MessageID # QueueID(1)
    /\ inboundQueue["G"] = <<>>
    /\ \A ack \in QueuedAcks("G") : ack.Orig # QueueID(1)
    /\ stats["G"].totalTxAttempts = 1
    /\ txGoroutines = {}

\* C39: episode independence of Reset: when Aircraft.Reset returns the
\* pending-reward accumulator of the aircraft is zero, so that the first Step
\* of the new episode is not rewarded for acknowledgments received before.
C39_ResetClearsReward ==
    [][\A a \in Aircraft : ResetReturns(a) => pendingReward'[a] = 0]_vars

\* a message has been handed to its sender
Enqueued(m) == m \notin flightPlan

C5_RetryBound ==
    \A id \in MessageIDs : retryCount[id] <= MaxRetries

\* C6: with MaxRetries = 16 and no acknowledgment ever arriving, when the
\* message is Exhausted the sender's retries counter equals 16 and its
\* successfulTx counter is unchanged.
C6_ExhaustedAfterMaxRetries ==
    \A m \in FlightPlanMessages :
        m.MessageID \in exhausted =>
            /\ stats[m.Sender].totalRetries = MaxRetries
            /\ stats[m.Sender].successfulTx = 0

\* C7: atomic take of a pending-ack entry -- the timeout sweep requeues a
\* message and counts a retry only for an entry it takes itself, that is, one
\* still in the pending-ack table when the sweep deletes it (an entry the
\* listening loop has taken, counting a success, is not also requeued).
C7_AtomicTake ==
    [][\A a \in Aircraft : \A id \in MessageIDs :
          (retryCount'[id] = retryCount[id] + 1 /\ stepState[a].pc = "requeue") =>
              ackWaiters[a][id] # None]_vars

\* C8: terminal states are final -- once a message is Acknowledged or Exhausted
\* no step places it in its sender's outbound queue, inserts it into the
\* pending-ack table or commits a new transmission of it.
C8_TerminalFinal ==
    [][\A m \in FlightPlanMessages :
          m.MessageID \in acknowledged \cup exhausted =>
              /\ InQueue(outboundQueue'[m.Sender], m.MessageID)
                    => InQueue(outboundQueue[m.Sender], m.MessageID)
              /\ ackWaiters'[m.Sender][m.MessageID] # None
                    => ackWaiters[m.Sender][m.MessageID] # None
              /\ \A t \in txGoroutines' \ txGoroutines :
                    t.pc = "sleep" => t.msg.MessageID # m.MessageID]_vars

\* C9: remove-at-commit -- whenever a message id has an entry in an aircraft's
\* pending-ack table, that id is not in the aircraft's outbound queue (the Steps
\* of one aircraft run one after the other).
C9_RemoveAtCommit ==
    \A a \in Aircraft : \A id \in MessageIDs :
        ackWaiters[a][id] # None => ~InQueue(outboundQueue[a], id)

\* C9 witness: a message that was requeued by the timeout sweep has been
\* committed again and is pending
C9_Witness ==
    \E a \in Aircraft : \E id \in MessageIDs :
        /\ ackWaiters[a][id] # None
        /\ retryCount[id] >= 1
        /\ stepState[a].pc = "idle"

\* the step is a commit of agent a's transmission of message id: the Store
\* into the pending-ack table
Commits(a, id) ==
    /\ stepState[a].pc = "attempt"
    /\ stepState[a].msg.MessageID = id
    /\ AttemptTransmitWins(stepState[a].channel)
    /\ stepState'[a].pc # "attempt"

\* C10: single in-flight -- a message id occurs at most once in an aircraft's
\* pending-ack table: a commit inserts the id only when the table holds no
\* entry for it, and it then holds exactly the entry of that commit.
C10_SingleInFlight ==
    [][\A a \in Aircraft : \A id \in MessageIDs :
          Commits(a, id) =>
              /\ ackWaiters[a][id] = None
              /\ ackWaiters'[a][id] = [message |-> stepState[a].msg, sendTime |-> 0]]_vars

\* C10 witness: the second commit of a message has just entered the table (its
\* first entry was retired before)
C10_Witness ==
    \E a \in Aircraft : \E id \in MessageIDs :
        /\ ackWaiters[a][id] # None
        /\ ackWaiters[a][id].sendTime = 0
        /\ stats[a].totalTxAttempts >= 2
        /\ \E t \in txGoroutines : t.sender = a /\ t.msg.MessageID = id

====
